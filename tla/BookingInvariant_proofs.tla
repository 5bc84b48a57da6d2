------------------------ MODULE BookingInvariant_proofs ------------------------
(***************************************************************************)
(* TypeOK, RowInv and IInv are inductive, and what follows from them, for  *)
(* any sets of bookings, cancel requests and expiry jobs, any number of    *)
(* failures and any setting of the constants that meets the hypotheses.    *)
(*                                                                         *)
(* Each group of variables gets a lemma on what a step may do to it; the   *)
(* parts of the invariant then follow from those, not action by action.    *)
(***************************************************************************)
EXTENDS BookingInvariant, SlotKeys_proofs, TLAPS

-----------------------------------------------------------------------------
(* Type correctness, whatever the constants are.                           *)

USE StateAssumption

LEMMA HoursAreInts == ASSUME NEW slot PROVE LockHours(slot) \subseteq Int
  BY DEF LockHours

LEMMA PublishTypes ==
  ASSUME StateTypeOK, NEW type \in EventTypes, NEW b \in Bookings, Publish(type, b)
  PROVE  events' \in [EventTypes -> [Bookings -> Nat]]
BY DEF StateTypeOK, Publish

\* A step of a create request.
LEMMA CreateTypes ==
  ASSUME StateTypeOK, CreateTypeOK, NEW r \in Bookings, CreateNext(r)
  PROVE  StateTypeOK' /\ CreateTypeOK'
<1> USE DEF StateTypeOK, CreateTypeOK, GoTo, Loop, Answered, stateVars
<1>0. Hours(r) \subseteq Int /\ "PENDING_PAYMENT" \in Statuses
  BY HoursAreInts DEF Hours, Statuses, Active
<1>1. CASE Start(r)
  BY <1>0, <1>1 DEF Start
<1>2. CASE Refuse(r)
  BY <1>2 DEF Refuse, Fault
<1>3. CASE AcquireLock(r)
  BY <1>3 DEF AcquireLock, SetNX, Lock
<1>4. CASE LockTaken(r)
  BY <1>0, <1>4 DEF LockTaken
<1>5. CASE SaveBooking(r)
  BY <1>5 DEF SaveBooking
<1>6. CASE CommitBooking(r)
  BY <1>0, <1>6 DEF CommitBooking, Insert
<1>7. CASE PublishCreated(r)
  <2>1. events' \in [EventTypes -> [Bookings -> Nat]]
    BY <1>7, PublishTypes DEF PublishCreated, EventTypes
  <2> QED
    BY <1>7, <2>1 DEF PublishCreated
<1>8. CASE SaveOrCommitFails(r)
  BY <1>0, <1>8 DEF SaveOrCommitFails, Insert, Fault
<1>9. CASE ReleaseLock(r)
  BY <1>9 DEF ReleaseLock, Release
<1>10. CASE GiveUp(r)
  BY <1>10 DEF GiveUp
<1>11. CASE RedisFails(r)
  BY <1>11 DEF RedisFails, SetNX, Lock, MaybeRelease, Release, Fault
<1>12. CASE Crash(r)
  BY <1>12 DEF Crash, Fault
<1> QED
  BY <1>1, <1>2, <1>3, <1>4, <1>5, <1>6, <1>7, <1>8, <1>9, <1>10, <1>11, <1>12
  DEF CreateNext, Proceed

\* A step of a cancel request.
LEMMA CancelTypes ==
  ASSUME StateTypeOK, CancelTypeOK, NEW c \in Cancellers, CancelNext(c)
  PROVE  StateTypeOK' /\ CancelTypeOK'
<1> USE DEF StateTypeOK, CancelTypeOK, CGoTo, stateVars
<1>0. "CANCELLED" \in Statuses
  BY DEF Statuses, Terminal
<1>1. ASSUME NEW b \in Bookings, Load(c, UserOf[b]) PROVE StateTypeOK' /\ CancelTypeOK'
  BY <1>1 DEF Load
<1>2. CASE Merge(c)
  BY <1>2 DEF Merge, Dirty
<1>3. CASE CommitCancel(c)
  BY <1>0, <1>3 DEF CommitCancel, WriteCancelled
<1>4. CASE CancelFails(c)
  BY <1>0, <1>4 DEF CancelFails, WriteCancelled, Fault
<1> QED
  BY <1>1, <1>2, <1>3, <1>4 DEF CancelNext, CancelProceed

\* A step of the expiry job.
LEMMA ExpireTypes ==
  ASSUME StateTypeOK, ExpireTypeOK, NEW e \in Expirers, ExpireNext(e)
  PROVE  StateTypeOK' /\ ExpireTypeOK'
<1> USE DEF StateTypeOK, ExpireTypeOK, EGoTo, stateVars
<1>0. "EXPIRED" \in Statuses /\ FindExpired \subseteq Bookings
  BY DEF Statuses, Terminal, FindExpired
<1>1. CASE Find(e)
  BY <1>0, <1>1 DEF Find, NewRun
<1>2. CASE Finish(e)
  BY <1>2 DEF Finish
<1>3. CASE FindFails(e)
  BY <1>3 DEF FindFails, expireVars, Fault
<1>4. CASE ExpirerCrash(e)
  BY <1>4 DEF ExpirerCrash, NewRun, Fault
<1>5. ASSUME NEW b \in Bookings, MergeExpired(e, b) PROVE StateTypeOK' /\ ExpireTypeOK'
  BY <1>5 DEF MergeExpired, Dirty
<1>6. ASSUME NEW b \in Bookings, CommitExpired(e, b) PROVE StateTypeOK' /\ ExpireTypeOK'
  BY <1>0, <1>6, HoursAreInts DEF CommitExpired, WriteExpired, EHours
<1>7. ASSUME NEW b \in Bookings, ReleaseExpired(e, b) PROVE StateTypeOK' /\ ExpireTypeOK'
  BY <1>7 DEF ReleaseExpired, Release
<1>8. ASSUME NEW b \in Bookings, PublishExpired(e, b) PROVE StateTypeOK' /\ ExpireTypeOK'
  <2>1. events' \in [EventTypes -> [Bookings -> Nat]]
    BY <1>8, PublishTypes DEF PublishExpired, EventTypes
  <2> QED
    BY <1>8, <2>1 DEF PublishExpired
<1>9. ASSUME NEW b \in Bookings, SessionUnusable(e, b) PROVE StateTypeOK' /\ ExpireTypeOK'
  BY <1>9 DEF SessionUnusable, Skip
<1>10. ASSUME NEW b \in Bookings, SqlFails(e, b) PROVE StateTypeOK' /\ ExpireTypeOK'
  BY <1>0, <1>10 DEF SqlFails, Skip, WriteExpired, Fault
<1>11. ASSUME NEW b \in Bookings, RedisFailsExpiring(e, b) PROVE StateTypeOK' /\ ExpireTypeOK'
  BY <1>11 DEF RedisFailsExpiring, Skip, MaybeRelease, Release, Fault
<1> QED
  BY <1>1, <1>2, <1>3, <1>4, <1>5, <1>6, <1>7, <1>8, <1>9, <1>10, <1>11
  DEF ExpireNext, ExpireProceed

LEMMA TypesNext == TypeOK /\ [Next]_vars => TypeOK'
<1> SUFFICES ASSUME TypeOK, [Next]_vars PROVE TypeOK'
  OBVIOUS
<1> USE DEF TypeOK
<1>1. CASE UNCHANGED vars
  BY <1>1 DEF vars, StateTypeOK, stateVars, CreateTypeOK, createVars, CancelTypeOK,
              cancelVars, ExpireTypeOK, expireVars
<1>2. CASE Tick
  BY <1>2 DEF Tick, Unexpired, StateTypeOK, CreateTypeOK, createVars, CancelTypeOK,
              cancelVars, ExpireTypeOK, expireVars
<1>3. CASE Evict /\ UNCHANGED <<createVars, cancelVars, expireVars>>
  BY <1>3 DEF Evict, Fault, StateTypeOK, CreateTypeOK, createVars, CancelTypeOK,
              cancelVars, ExpireTypeOK, expireVars
<1>4. ASSUME NEW r \in Bookings, CreateNext(r), UNCHANGED <<cancelVars, expireVars>>
      PROVE  TypeOK'
  BY <1>4, CreateTypes DEF CancelTypeOK, cancelVars, ExpireTypeOK, expireVars
<1>5. ASSUME NEW c \in Cancellers, CancelNext(c), UNCHANGED <<createVars, expireVars>>
      PROVE  TypeOK'
  BY <1>5, CancelTypes DEF CreateTypeOK, createVars, ExpireTypeOK, expireVars
<1>6. ASSUME NEW e \in Expirers, ExpireNext(e), UNCHANGED <<createVars, cancelVars>>
      PROVE  TypeOK'
  BY <1>6, ExpireTypes DEF CreateTypeOK, createVars, CancelTypeOK, cancelVars
<1> QED
  BY <1>1, <1>2, <1>3, <1>4, <1>5, <1>6 DEF Next

LEMMA TypesInit == Init => TypeOK
  BY DEF Init, TypeOK, StateInit, StateTypeOK, EventTypes, CreateInit, CreateTypeOK,
         CancelInit, CancelTypeOK, ExpireInit, ExpireTypeOK

\* Every variable keeps within its type, whatever the constants are.
THEOREM Types == Spec => []TypeOK
  BY TypesInit, TypesNext, PTL DEF Spec

HIDE StateAssumption

-----------------------------------------------------------------------------
(* What a step may do to the table.                                        *)

\* A row appears by the commit of its request, and otherwise only goes from
\* some status to a terminal one.
StatusStep ==
  \A b \in Bookings : \/ status'[b] = status[b]
                      \/ status'[b] \in Terminal /\ status[b] # "ABSENT"
                      \/ status[b] = "ABSENT" /\ CommitBooking(b)

LEMMA CreateStatus ==
  ASSUME ~AmbiguousCommit, TypeOK, RowHasRequest, NEW r \in Bookings, CreateNext(r)
  PROVE  StatusStep
<1> USE DEF StatusStep
<1>1. CASE CommitBooking(r)
  <2>1. status[r] = "ABSENT"
    BY <1>1 DEF CommitBooking, RowHasRequest
  <2> QED
    BY <1>1, <2>1 DEF CommitBooking, Insert, TypeOK, StateTypeOK
<1>2. CASE UNCHANGED status
  BY <1>2
<1> QED
  BY <1>1, <1>2 DEF CreateNext, Proceed, Start, Refuse, AcquireLock, LockTaken, SaveBooking,
     PublishCreated, SaveOrCommitFails, ReleaseLock, GiveUp, RedisFails, Crash, stateVars

LEMMA CancelStatus ==
  ASSUME ~AmbiguousCommit, TypeOK, CancelKnowsRow, NEW c \in Cancellers, CancelNext(c)
  PROVE  StatusStep
<1> USE DEF StatusStep
<1>1. CASE CommitCancel(c)
  <2>1. status[target[c]] # "ABSENT" /\ target[c] \in Bookings
    BY <1>1 DEF CommitCancel, CancelKnowsRow, TypeOK, CancelTypeOK
  <2>2. "CANCELLED" \in Terminal
    BY DEF Terminal
  <2> QED
    BY <1>1, <2>1, <2>2 DEF CommitCancel, WriteCancelled, TypeOK, StateTypeOK
<1>2. CASE UNCHANGED status
  BY <1>2
<1> QED
  BY <1>1, <1>2 DEF CancelNext, CancelProceed, Load, Merge, CancelFails, stateVars

LEMMA ExpireStatus ==
  ASSUME ~AmbiguousCommit, TypeOK, ExpirerKnowsRow, NEW e \in Expirers, ExpireNext(e)
  PROVE  StatusStep
<1> USE DEF StatusStep
<1>1. ASSUME NEW b \in Bookings, CommitExpired(e, b) PROVE StatusStep
  <2>1. status[b] # "ABSENT"
    BY <1>1 DEF CommitExpired, ExpirerKnowsRow, KnowsCurrent
  <2>2. "EXPIRED" \in Terminal
    BY DEF Terminal
  <2> QED
    BY <1>1, <2>1, <2>2 DEF CommitExpired, WriteExpired, TypeOK, StateTypeOK
<1>2. CASE UNCHANGED status
  BY <1>2
<1> QED
  BY <1>1, <1>2 DEF ExpireNext, ExpireProceed, Find, Finish, MergeExpired, ReleaseExpired,
     PublishExpired, SessionUnusable, FindFails, ExpirerCrash, SqlFails, RedisFailsExpiring,
     stateVars

LEMMA StatusSteps ==
  ASSUME ~AmbiguousCommit, RowInv, [Next]_vars
  PROVE  StatusStep
<1>1. CASE UNCHANGED status
  BY <1>1 DEF StatusStep
<1> QED
  BY <1>1, CreateStatus, CancelStatus, ExpireStatus
  DEF RowInv, Next, vars, stateVars, Tick, Evict

-----------------------------------------------------------------------------
(* What a step may do to a request.                                        *)

\* What a step does to request r: nothing, or its first step, or a later one.
Begins(r) == /\ pc[r] = "idle" /\ pc'[r] \in {"locking", "409", "422", "500"}
             /\ pc'[r] # "422" => OperatingHours(SlotOf[r])
             /\ pc'[r] = "409" => FindOverlapping(SlotOf[r]) # {}
             /\ pc'[r] = "locking" => checkedAt'[r] = now

GoesOn(r) == /\ pc[r] \in {"locking", "saved", "committed", "undo", "failing"}
             /\ pc'[r] \notin {"idle", "409", "422"}
             /\ checkedAt'[r] = checkedAt[r]
             /\ InFlight(r)' => InFlight(r)
             /\ pc'[r] \in {"undo", "503"} => pc[r] = "undo" \/ LockTaken(r)
             /\ pc'[r] = "saved" => dueAt'[r] = now + Expiry

Stays(r) == /\ pc'[r] = pc[r] /\ checkedAt'[r] = checkedAt[r]
            /\ dueAt'[r] = dueAt[r]

RequestStep == \A r \in Bookings : Stays(r) \/ Begins(r) \/ GoesOn(r)

LEMMA RequestSteps == ASSUME TypeOK, [Next]_vars PROVE RequestStep
<1> USE DEF TypeOK, CreateTypeOK, RequestStep
<1>1. CASE UNCHANGED createVars
  BY <1>1 DEF createVars, Stays
<1>2. ASSUME NEW r \in Bookings, CreateNext(r) PROVE RequestStep
  <2>1. \A b \in Bookings \ {r} : Stays(b)
    BY <1>2 DEF Stays, GoTo, CreateNext, Proceed, Start, Refuse, AcquireLock, LockTaken,
       SaveBooking, CommitBooking, PublishCreated, SaveOrCommitFails, ReleaseLock, GiveUp,
       RedisFails, Crash
  <2>2. CASE Start(r) \/ Refuse(r)
    <3>1. Begins(r)
      BY <2>2 DEF Start, Refuse, GoTo, Begins, ValidNewBooking
    <3> QED
      BY <2>1, <3>1
  <2>3. CASE Proceed(r) \/ SaveOrCommitFails(r) \/ RedisFails(r) \/ Crash(r)
    <3>1. Stays(r) \/ GoesOn(r)
      BY <2>3 DEF Stays, GoesOn, InFlight, Releasing, GoTo, Proceed, AcquireLock, LockTaken,
         SaveBooking, CommitBooking, PublishCreated, SaveOrCommitFails, ReleaseLock, GiveUp,
         RedisFails, Crash
    <3> QED
      BY <2>1, <3>1
  <2> QED
    BY <1>2, <2>2, <2>3 DEF CreateNext
<1> QED
  BY <1>1, <1>2 DEF Next, vars, Tick

\* Only who passes the rules gets anywhere but to 422.
LEMMA AskedNext == ASSUME TypeOK, AskedInHours, [Next]_vars PROVE AskedInHours'
  BY RequestSteps DEF AskedInHours, RequestStep, Stays, Begins, GoesOn

-----------------------------------------------------------------------------
(* RowInv is inductive.                                                    *)

\* Nothing removes a row, or brings it back from a terminal status.
RowsKept ==
  \A b \in Bookings :
    status[b] # "ABSENT" => /\ status'[b] # "ABSENT"
                            /\ status[b] \in Terminal => status'[b] \in Terminal

LEMMA RowsStay == ASSUME StatusStep, TypeOK PROVE RowsKept
  BY DEF StatusStep, RowsKept, Terminal

LEMMA RowHasRequestNext ==
  ASSUME RowInv, StatusStep, [Next]_vars
  PROVE  RowHasRequest'
<1> USE DEF RowHasRequest, RowInv
<1>1. CASE UNCHANGED pc
  <2>1. ASSUME NEW b \in Bookings PROVE ~CommitBooking(b)
    BY <1>1 DEF CommitBooking, GoTo, TypeOK, CreateTypeOK
  <2> QED
    BY <1>1, <2>1 DEF StatusStep, Terminal
<1>2. ASSUME NEW r \in Bookings, CreateNext(r) PROVE RowHasRequest'
  <2> USE DEF TypeOK, StateTypeOK, CreateTypeOK, GoTo, stateVars
  <2>1. CASE CommitBooking(r)
    BY <2>1 DEF CommitBooking, Insert
  <2>2. CASE UNCHANGED status /\ ~CommitBooking(r)
    BY <1>2, <2>2 DEF CreateNext, Proceed, Start, Refuse, AcquireLock, LockTaken, SaveBooking,
       PublishCreated, SaveOrCommitFails, ReleaseLock, GiveUp, RedisFails, Crash, Releasing
  <2>3. CASE SaveOrCommitFails(r)
    <3>1. status[r] = "ABSENT" /\ pc'[r] = "failing"
      BY <2>3 DEF SaveOrCommitFails
    <3>2. ~CommitBooking(r)
      BY <3>1 DEF CommitBooking
    <3>3. \A b \in Bookings : CommitBooking(b) => b = r
      BY <2>3 DEF SaveOrCommitFails, CommitBooking
    <3> QED
      BY <2>3, <3>1, <3>2, <3>3 DEF StatusStep, SaveOrCommitFails, Terminal
  <2> QED
    BY <1>2, <2>1, <2>2, <2>3 DEF CreateNext, Proceed, Start, Refuse, AcquireLock, LockTaken,
       SaveBooking, PublishCreated, ReleaseLock, GiveUp, RedisFails, Crash
<1> QED
  BY <1>1, <1>2 DEF Next, vars, createVars, Tick

LEMMA CancelKnowsRowNext ==
  ASSUME TypeOK, CancelKnowsRow, RowsKept, [Next]_vars
  PROVE  CancelKnowsRow'
<1> USE DEF CancelKnowsRow, RowsKept
<1>1. CASE UNCHANGED cancelVars
  BY <1>1 DEF cancelVars, TypeOK, CancelTypeOK, Terminal
<1>2. ASSUME NEW c \in Cancellers, CancelNext(c) PROVE CancelKnowsRow'
  <2> USE DEF CGoTo
  <2>1. \A d \in Cancellers : target[d] \in Bookings /\ target' = target
    BY <1>2 DEF TypeOK, CancelTypeOK, CancelNext, CancelProceed, Load, Merge, CommitCancel,
                CancelFails
  <2>2. ASSUME NEW d \in Cancellers \ {c} PROVE cpc'[d] = cpc[d] /\ cdirty'[d] = cdirty[d]
    BY <1>2 DEF TypeOK, CancelTypeOK, CancelNext, CancelProceed, Load, Merge, CommitCancel,
                CancelFails
  <2>3. ASSUME NEW d \in Cancellers \ {c}
        PROVE  /\ cpc'[d] \in {"loaded", "merged", "200"} => status'[target'[d]] # "ABSENT"
               /\ cpc'[d] = "200" \/ (cpc'[d] = "merged" /\ ~cdirty'[d])
                    => status'[target'[d]] \in Terminal
    BY <2>1, <2>2 DEF Terminal
  <2>4. /\ cpc'[c] \in {"loaded", "merged", "200"} => status'[target'[c]] # "ABSENT"
        /\ cpc'[c] = "200" \/ (cpc'[c] = "merged" /\ ~cdirty'[c])
             => status'[target'[c]] \in Terminal
    <3> USE DEF TypeOK, StateTypeOK, CancelTypeOK, stateVars
    <3>1. ASSUME NEW u, Load(c, u) PROVE <2>4!1 /\ <2>4!2
      BY <2>1, <3>1 DEF Load, Visible
    <3>2. CASE Merge(c)
      BY <2>1, <3>2 DEF Merge, Dirty, Terminal
    <3>3. CASE CommitCancel(c)
      BY <2>1, <3>3 DEF CommitCancel, WriteCancelled, Terminal
    <3>4. CASE CancelFails(c)
      BY <2>1, <3>4 DEF CancelFails
    <3> QED
      BY <1>2, <3>1, <3>2, <3>3, <3>4 DEF CancelNext, CancelProceed
  <2> QED
    BY <2>3, <2>4
<1> QED
  BY <1>1, <1>2 DEF Next, vars, Tick

LEMMA ExpirerKnowsRowNext ==
  ASSUME TypeOK, ExpirerKnowsRow, RowsKept, [Next]_vars
  PROVE  ExpirerKnowsRow'
<1> USE DEF RowsKept
<1>1. CASE UNCHANGED expireVars
  BY <1>1
  DEF ExpirerKnowsRow, KnowsFound, KnowsCurrent, expireVars, TypeOK, ExpireTypeOK
<1>2. ASSUME NEW e \in Expirers, ExpireNext(e) PROVE ExpirerKnowsRow'
  <2> USE DEF EGoTo, TypeOK, StateTypeOK, ExpireTypeOK, stateVars
  <2>1. KnowsFound(e) /\ KnowsCurrent(e)
    BY DEF ExpirerKnowsRow
  <2>2. ASSUME NEW d \in Expirers \ {e}
        PROVE  /\ found'[d] = found[d] /\ current'[d] = current[d]
               /\ epc'[d] = epc[d] /\ edirty'[d] = edirty[d]
    BY <1>2 DEF ExpireNext, ExpireProceed, Find, Finish, MergeExpired, CommitExpired,
       ReleaseExpired, PublishExpired, SessionUnusable, FindFails, ExpirerCrash, SqlFails,
       RedisFailsExpiring, NewRun, Skip, expireVars
  <2>3. KnowsFound(e)'
    <3>1. found'[e] \subseteq found[e] \/ found'[e] = FindExpired
      BY <1>2 DEF ExpireNext, ExpireProceed, Find, Finish, MergeExpired, CommitExpired,
         ReleaseExpired, PublishExpired, SessionUnusable, FindFails, ExpirerCrash, SqlFails,
         RedisFailsExpiring, NewRun, Skip, expireVars
    <3>2. \A b \in found'[e] : b \in Bookings /\ status[b] # "ABSENT"
      BY <2>1, <3>1 DEF KnowsFound, FindExpired
    <3> QED
      BY <3>2 DEF KnowsFound
  <2>4. KnowsCurrent(e)'
    <3>1. CASE current'[e] = {}
      BY <3>1 DEF KnowsCurrent
    <3>2. CASE Finish(e) \/ FindFails(e)
      BY <2>1, <3>2 DEF Finish, FindFails, KnowsCurrent, expireVars
    <3>3. ASSUME NEW b \in Bookings, MergeExpired(e, b) PROVE KnowsCurrent(e)'
      BY <2>1, <3>3 DEF MergeExpired, Dirty, KnowsFound, KnowsCurrent, Terminal
    <3>4. ASSUME NEW b \in Bookings, CommitExpired(e, b) PROVE KnowsCurrent(e)'
      <4>1. /\ epc[e] = "merged" /\ current' = current
            /\ status' = IF edirty[e] THEN [status EXCEPT ![b] = "EXPIRED"] ELSE status
        BY <3>4 DEF CommitExpired, WriteExpired
      <4>2. current[e] = {b} /\ status[b] # "ABSENT"
        BY <2>1, <3>4 DEF CommitExpired, KnowsCurrent
      <4> QED
        BY <2>1, <4>1, <4>2 DEF KnowsCurrent, Terminal
    <3>5. ASSUME NEW b \in Bookings, ReleaseExpired(e, b) PROVE KnowsCurrent(e)'
      BY <2>1, <3>5 DEF ReleaseExpired, KnowsCurrent
    <3> QED
      BY <1>2, <3>1, <3>2, <3>3, <3>4, <3>5
      DEF ExpireNext, ExpireProceed, Find, PublishExpired, SessionUnusable, ExpirerCrash,
          SqlFails, RedisFailsExpiring, NewRun, Skip
  <2> QED
    BY <2>1, <2>2, <2>3, <2>4 DEF ExpirerKnowsRow, KnowsFound, KnowsCurrent
<1> QED
  BY <1>1, <1>2 DEF Next, vars, Tick

LEMMA RowInvInit == Init => RowInv
<1> SUFFICES ASSUME Init PROVE RowInv
  OBVIOUS
<1>1. RowHasRequest /\ CancelKnowsRow /\ ExpirerKnowsRow
  BY DEF Init, StateInit, CreateInit, CancelInit, ExpireInit, RowHasRequest, CancelKnowsRow,
         ExpirerKnowsRow, KnowsFound, KnowsCurrent
<1> QED
  BY <1>1, TypesInit DEF RowInv

LEMMA RowInvNext == ~AmbiguousCommit /\ RowInv /\ [Next]_vars => RowInv'
<1> SUFFICES ASSUME ~AmbiguousCommit, RowInv, [Next]_vars PROVE RowInv'
  OBVIOUS
<1>1. StatusStep
  BY StatusSteps
<1>2. RowsKept
  BY <1>1, RowsStay DEF RowInv
<1>3. TypeOK'
  BY TypesNext DEF RowInv
<1> QED
  BY <1>1, <1>2, <1>3, RowHasRequestNext, CancelKnowsRowNext, ExpirerKnowsRowNext DEF RowInv

LEMMA RowInvAlways == ASSUME ~AmbiguousCommit PROVE Spec => []RowInv
  BY RowInvInit, RowInvNext, PTL DEF Spec

-----------------------------------------------------------------------------
(* What a step may do to the locks and to the requests in flight, unless   *)
(* time passes.                                                            *)

Needed(b) == InFlight(b) \/ IsActive(b)

\* A lock disappears only if its owner neither relies on it nor occupies a slot;
\* a lock appears only where there was none.
LockStep ==
  /\ \A l \in locks \ locks' : ~Needed(l.owner)
  /\ \A l \in locks' \ locks : ~Taken(l.key) /\ locks' = locks \cup {l}

LEMMA ReleaseStep ==
  ASSUME NEW b, ~Needed(b), NEW k, Release(k, b)
  PROVE  LockStep
  BY DEF Release, LockStep

LEMMA AcquireStep ==
  ASSUME NEW b, NEW k, SetNX(k, b)
  PROVE  LockStep
<1>1. Lock(k, b).key = k
  BY DEF Lock
<1> QED
  BY <1>1 DEF SetNX, LockStep

LEMMA LockSteps ==
  ASSUME ~RedisVolatile, RowInv, Next, ~Tick
  PROVE  LockStep
<1> USE DEF RowInv
<1>1. CASE UNCHANGED locks
  BY <1>1 DEF LockStep
<1>2. ASSUME NEW r \in Bookings, CreateNext(r) PROVE LockStep
  <2>1. ASSUME Releasing(r) PROVE ~Needed(r)
    BY <2>1 DEF Releasing, Needed, InFlight, IsActive, Active, RowHasRequest
  <2>2. CASE AcquireLock(r)
    BY <2>2, AcquireStep DEF AcquireLock
  <2>3. CASE ReleaseLock(r)
    BY <2>1, <2>3, ReleaseStep DEF ReleaseLock
  <2>4. CASE RedisFails(r)
    BY <1>1, <2>1, <2>4, AcquireStep, ReleaseStep DEF RedisFails, MaybeRelease
  <2> QED
    BY <1>1, <1>2, <2>2, <2>3, <2>4
    DEF CreateNext, Proceed, Start, Refuse, LockTaken, SaveBooking, CommitBooking,
        PublishCreated, SaveOrCommitFails, GiveUp, Crash, stateVars
<1>3. ASSUME NEW e \in Expirers, ExpireNext(e) PROVE LockStep
  <2>1. ASSUME NEW b \in Bookings, epc[e] = "releasing", b \in current[e] PROVE ~Needed(b)
    BY <2>1 DEF ExpirerKnowsRow, KnowsCurrent, RowHasRequest, Needed, InFlight, IsActive,
                Active, Terminal
  <2>2. ASSUME NEW b \in Bookings, ReleaseExpired(e, b) PROVE LockStep
    BY <2>1, <2>2, ReleaseStep DEF ReleaseExpired
  <2>3. ASSUME NEW b \in Bookings, RedisFailsExpiring(e, b) PROVE LockStep
    BY <1>1, <2>1, <2>3, ReleaseStep DEF RedisFailsExpiring, MaybeRelease
  <2> QED
    BY <1>1, <1>3, <2>2, <2>3
    DEF ExpireNext, ExpireProceed, Find, Finish, MergeExpired, CommitExpired,
        PublishExpired, SessionUnusable, FindFails, ExpirerCrash, SqlFails, stateVars
<1>4. ASSUME NEW c \in Cancellers, CancelNext(c) PROVE LockStep
  BY <1>1, <1>4 DEF CancelNext, CancelProceed, Load, Merge, CommitCancel, CancelFails, stateVars
<1> QED
  BY <1>2, <1>3, <1>4 DEF Next, Evict

\* The locks a request or a booking relies on stay its own until their time is
\* over: no slower request, no expiry job and no failure removes them.
THEOREM LocksAreSafe ==
  ASSUME ~AmbiguousCommit, ~RedisVolatile PROVE Spec => LocksStayWithOwner
<1>1. RowInv /\ [Next]_vars
        => [\A l \in locks \ locks' :
              l.until > now' => ~(InFlight(l.owner) /\ InFlight(l.owner)')]_vars
  <2> SUFFICES ASSUME RowInv, Next, NEW l \in locks \ locks', l.until > now', InFlight(l.owner)
               PROVE  FALSE
    BY DEF vars, stateVars
  <2>1. CASE Tick
    BY <2>1 DEF Tick, Unexpired
  <2>2. CASE ~Tick
    BY <2>2, LockSteps DEF LockStep, Needed
  <2> QED
    BY <2>1, <2>2
<1> QED
  BY <1>1, RowInvAlways, PTL DEF Spec, LocksStayWithOwner

-----------------------------------------------------------------------------
(* IInv is inductive.                                                      *)

\* A request in flight after a step has begun with it, or was in flight and has
\* at most taken one more hour.
FlightStep(r) ==
  \/ ~InFlight(r)'
  \/ Start(r)
  \/ /\ InFlight(r) /\ checkedAt'[r] = checkedAt[r]
     /\ todo'[r] = todo[r] \/ AcquireLock(r)
     /\ pc'[r] = "saved" => todo'[r] = {}

LEMMA FlightSteps ==
  ASSUME TypeOK, AcquiredIsHeld, Next, ~Tick, NEW r \in Bookings
  PROVE  FlightStep(r)
<1> USE DEF FlightStep
<1>1. CASE UNCHANGED createVars
  BY <1>1 DEF createVars, InFlight, AcquiredIsHeld
<1>2. ASSUME NEW q \in Bookings \ {r}, CreateNext(q) PROVE FlightStep(r)
  <2>1. pc'[r] = pc[r] /\ todo'[r] = todo[r] /\ checkedAt'[r] = checkedAt[r]
    BY <1>2 DEF CreateNext, Proceed, Start, Refuse, AcquireLock, LockTaken, SaveBooking,
       CommitBooking, PublishCreated, SaveOrCommitFails, ReleaseLock, GiveUp, RedisFails,
       Crash, GoTo, Loop, TypeOK, CreateTypeOK
  <2> QED
    BY <2>1 DEF InFlight, AcquiredIsHeld
<1>3. CASE CreateNext(r)
  <2> USE DEF TypeOK, CreateTypeOK, GoTo, Loop, InFlight
  <2>1. CASE AcquireLock(r)
    BY <2>1 DEF AcquireLock
  <2>2. CASE SaveBooking(r)
    BY <2>2 DEF SaveBooking
  <2>3. CASE LockTaken(r) \/ CommitBooking(r) \/ PublishCreated(r) \/ ReleaseLock(r)
             \/ GiveUp(r) \/ Refuse(r) \/ SaveOrCommitFails(r) \/ RedisFails(r) \/ Crash(r)
    BY <2>3 DEF LockTaken, CommitBooking, PublishCreated, ReleaseLock, GiveUp, Refuse,
       SaveOrCommitFails, RedisFails, Crash, Releasing
  <2> QED
    BY <1>3, <2>1, <2>2, <2>3 DEF CreateNext, Proceed
<1> QED
  BY <1>1, <1>2, <1>3 DEF Next

\* Whoever needs a lock keeps it, if no time passes.
LEMMA HoldsKept ==
  ASSUME LockStep, NEW b \in Bookings, Needed(b), checkedAt'[b] = checkedAt[b],
         NEW h, Holds(b, h)
  PROVE  Holds(b, h)'
<1>1. PICK l \in locks : /\ l.key = KeyOf(b, h) /\ l.owner = b
                         /\ l.until >= checkedAt[b] + TTL
  BY DEF Holds
<1>2. l \in locks'
  BY <1>1 DEF LockStep
<1> QED
  BY <1>1, <1>2 DEF Holds

\* A lock acquired now lasts for TTL from now, and the check came before.
LEMMA AcquiredHolds ==
  ASSUME TypeOK, Timely, Next, ~Tick, NEW r \in Bookings, InFlight(r),
         NEW h \in todo[r], SetNX(KeyOf(r, h), r), checkedAt'[r] = checkedAt[r]
  PROVE  Holds(r, h)'
<1>1. Lock(KeyOf(r, h), r) \in locks'
  BY DEF SetNX
<1>2. now + TTL >= checkedAt[r] + TTL
  <2>1. \A n, m \in Nat : m <= n => n + TTL >= m + TTL
    BY StateAssumption
  <2>2. checkedAt[r] \in Nat /\ now \in Nat /\ checkedAt[r] <= now
    BY DEF TypeOK, StateTypeOK, CreateTypeOK, Timely
  <2> QED
    BY <2>1, <2>2
<1> QED
  BY <1>1, <1>2 DEF Holds, Lock

LEMMA OneOwnerNext ==
  ASSUME OneOwnerPerKey, LockStep
  PROVE  OneOwnerPerKey'
  BY DEF OneOwnerPerKey, LockStep, Taken

\* Only Tick moves the clock.
LEMMA ClockStands == ASSUME Next, ~Tick PROVE now' = now
<1>1. ASSUME NEW r \in Bookings, CreateNext(r) PROVE now' = now
  BY <1>1 DEF CreateNext, Proceed, Start, Refuse, AcquireLock, LockTaken, SaveBooking,
     CommitBooking, PublishCreated, SaveOrCommitFails, ReleaseLock, GiveUp, RedisFails,
     Crash, stateVars
<1>2. ASSUME NEW c \in Cancellers, CancelNext(c) PROVE now' = now
  BY <1>2 DEF CancelNext, CancelProceed, Load, Merge, CommitCancel, CancelFails, stateVars
<1>3. ASSUME NEW e \in Expirers, ExpireNext(e) PROVE now' = now
  BY <1>3 DEF ExpireNext, ExpireProceed, Find, Finish, MergeExpired, CommitExpired,
     ReleaseExpired, PublishExpired, SessionUnusable, FindFails, ExpirerCrash, SqlFails,
     RedisFailsExpiring, stateVars
<1> QED
  BY <1>1, <1>2, <1>3 DEF Next, Evict

LEMMA TimelyNext ==
  ASSUME TypeOK, Timely, [Next]_vars
  PROVE  Timely'
<1> USE SystemAssumption DEF TypeOK, StateTypeOK, CreateTypeOK, Timely, InFlight
<1>1. CASE Tick
  BY <1>1 DEF Tick, createVars
<1>2. CASE ~Tick
  <2>1. now' = now
    BY <1>2, ClockStands DEF vars, stateVars
  <2> QED
    BY <2>1, RequestSteps DEF RequestStep, Stays, Begins, GoesOn
<1> QED
  BY <1>1, <1>2

LEMMA AcquiredNext ==
  ASSUME TypeOK, Timely, AcquiredIsHeld, LockStep, Next, ~Tick
  PROVE  AcquiredIsHeld'
<1> SUFFICES ASSUME NEW r \in Bookings, InFlight(r)'
             PROVE  /\ \A h \in Hours(r) \ todo'[r] : Holds(r, h)'
                    /\ pc'[r] = "saved" => todo'[r] = {}
  BY DEF AcquiredIsHeld, InFlight
<1>1. CASE Start(r)
  BY <1>1 DEF Start, Loop, GoTo, TypeOK, CreateTypeOK
<1>2. CASE InFlight(r) /\ checkedAt'[r] = checkedAt[r] /\ todo'[r] = todo[r]
           /\ (pc'[r] = "saved" => todo'[r] = {})
  BY <1>2, HoldsKept DEF AcquiredIsHeld, Needed
<1>3. CASE InFlight(r) /\ checkedAt'[r] = checkedAt[r] /\ AcquireLock(r)
           /\ (pc'[r] = "saved" => todo'[r] = {})
  <2>1. PICK g \in todo[r] : SetNX(KeyOf(r, g), r) /\ todo'[r] = todo[r] \ {g}
    BY <1>3 DEF AcquireLock, Loop, TypeOK, CreateTypeOK
  <2>2. Holds(r, g)'
    BY <1>3, <2>1, AcquiredHolds
  <2>3. \A h \in Hours(r) \ todo[r] : Holds(r, h)'
    BY <1>3, HoldsKept DEF AcquiredIsHeld, Needed
  <2> QED
    BY <1>3, <2>1, <2>2, <2>3
<1> QED
  BY <1>1, <1>2, <1>3, FlightSteps DEF FlightStep

\* Only Start sets checkedAt.
LEMMA ChecksStand ==
  ASSUME TypeOK, Next, NEW b \in Bookings
  PROVE  checkedAt'[b] = checkedAt[b] \/ Start(b)
<1>1. CASE UNCHANGED createVars
  BY <1>1 DEF createVars
<1>2. ASSUME NEW r \in Bookings, CreateNext(r) PROVE checkedAt'[b] = checkedAt[b] \/ Start(b)
  BY <1>2 DEF CreateNext, Proceed, Start, Refuse, AcquireLock, LockTaken, SaveBooking,
     CommitBooking, PublishCreated, SaveOrCommitFails, ReleaseLock, GiveUp, RedisFails,
     Crash, TypeOK, CreateTypeOK
<1> QED
  BY <1>1, <1>2 DEF Next, Tick

LEMMA RivalNext ==
  ASSUME RowInv, Timely, AcquiredIsHeld, RivalIsLocked, StatusStep, LockStep, Next, ~Tick
  PROVE  RivalIsLocked'
<1> SUFFICES ASSUME NEW b \in Bookings, NEW r \in Bookings, b # r, IsActive(b)', InFlight(r)',
                    Overlap(SlotOf[b], SlotOf[r])
             PROVE  /\ checkedAt'[r] <= checkedAt'[b] + MaxRequest
                    /\ \A h \in Hours(b) : Holds(b, h)'
  BY DEF RivalIsLocked
<1> USE DEF RowInv
<1>1. CASE Start(r)
  <2>1. IsActive(b)
    BY <1>1 DEF Start, stateVars, IsActive
  <2> QED
    BY <1>1, <2>1 DEF Start, FindOverlapping
<1>2. CASE InFlight(r) /\ checkedAt'[r] = checkedAt[r]
  <2>1. CASE status'[b] = status[b]
    <3>1. IsActive(b)
      BY <2>1 DEF IsActive
    <3>2. ~Start(b)
      BY <3>1 DEF Start, RowHasRequest, IsActive, Active
    <3>3. checkedAt'[b] = checkedAt[b]
      BY <3>2, ChecksStand
    <3>4. checkedAt[r] <= checkedAt[b] + MaxRequest /\ \A h \in Hours(b) : Holds(b, h)
      BY <1>2, <3>1 DEF RivalIsLocked
    <3> QED
      BY <1>2, <3>1, <3>3, <3>4, HoldsKept DEF Needed
  <2>2. CASE status'[b] \in Terminal
    BY <2>2 DEF IsActive, Active, Terminal
  <2>3. CASE CommitBooking(b)
    <3>1. pc[b] = "saved" /\ InFlight(b) /\ checkedAt'[b] = checkedAt[b]
      BY <2>3 DEF CommitBooking, InFlight
    <3>2. \A h \in Hours(b) : Holds(b, h)
      BY <3>1 DEF AcquiredIsHeld
    <3>3. checkedAt[r] <= now /\ now <= checkedAt[b] + MaxRequest
      BY <1>2, <3>1 DEF Timely
    <3>4. checkedAt[r] <= checkedAt[b] + MaxRequest
      <4>1. /\ checkedAt[r] \in Nat /\ now \in Nat /\ checkedAt[b] \in Nat
        BY DEF TypeOK, StateTypeOK, CreateTypeOK
      <4>2. \A i, j, k \in Nat : i <= j /\ j <= k + MaxRequest => i <= k + MaxRequest
        BY SystemAssumption
      <4> QED
        BY <3>3, <4>1, <4>2
    <3> QED
      BY <1>2, <3>1, <3>2, <3>4, HoldsKept DEF Needed
  <2> QED
    BY <2>1, <2>2, <2>3 DEF StatusStep
<1> QED
  BY <1>1, <1>2, FlightSteps DEF FlightStep

LEMMA OverlapIsSymmetric == ASSUME NEW s, NEW t, Overlap(s, t) PROVE Overlap(t, s)
  BY DEF Overlap

\* Two requests that compete for a key do not both hold all their locks.
LEMMA RivalsExclude ==
  ASSUME SlotsCovered, OneOwnerPerKey, NEW a \in Bookings, NEW b \in Bookings, a # b,
         OperatingHours(SlotOf[a]), OperatingHours(SlotOf[b]), Overlap(SlotOf[a], SlotOf[b]),
         \A h \in Hours(a) : Holds(a, h), \A h \in Hours(b) : Holds(b, h)
  PROVE  FALSE
<1>1. PICK k : k \in LockKeys(SlotOf[a]) /\ k \in LockKeys(SlotOf[b])
  BY DEF SlotsCovered, KeysCollide
<1>2. PICK h \in Hours(a) : k = KeyOf(a, h)
  BY <1>1 DEF LockKeys, Hours, KeyOf
<1>3. PICK g \in Hours(b) : k = KeyOf(b, g)
  BY <1>1 DEF LockKeys, Hours, KeyOf
<1>4. PICK l \in locks : l.key = k /\ l.owner = a
  BY <1>2 DEF Holds
<1>5. PICK m \in locks : m.key = k /\ m.owner = b
  BY <1>3 DEF Holds
<1> QED
  BY <1>4, <1>5 DEF OneOwnerPerKey

\* A request that commits meets no active booking in its slot.
LEMMA CommitMeetsNoRival ==
  ASSUME SlotsCovered, RowHasRequest, AskedInHours, OneOwnerPerKey, AcquiredIsHeld,
         RivalIsLocked, NEW a \in Bookings, NEW b \in Bookings, a # b, CommitBooking(a), IsActive(b)
  PROVE  ~Overlap(SlotOf[b], SlotOf[a])
<1> SUFFICES ASSUME Overlap(SlotOf[b], SlotOf[a]) PROVE FALSE
  OBVIOUS
<1>1. InFlight(a) /\ pc[a] = "saved"
  BY DEF CommitBooking, InFlight
<1>2. \A h \in Hours(a) : Holds(a, h)
  BY <1>1 DEF AcquiredIsHeld
<1>3. \A h \in Hours(b) : Holds(b, h)
  BY <1>1 DEF RivalIsLocked
<1>4. OperatingHours(SlotOf[a]) /\ OperatingHours(SlotOf[b])
  BY <1>1 DEF AskedInHours, RowHasRequest, IsActive, Active
<1> QED
  BY <1>2, <1>3, <1>4, RivalsExclude

LEMMA NoDoubleBookingNext ==
  ASSUME SlotsCovered, TypeOK, RowHasRequest, AskedInHours, OneOwnerPerKey, AcquiredIsHeld,
         RivalIsLocked, NoDoubleBooking, StatusStep
  PROVE  NoDoubleBooking'
<1> SUFFICES ASSUME NEW a \in Bookings, NEW b \in Bookings, a # b, IsActive(a)', IsActive(b)',
                    Overlap(SlotOf[a], SlotOf[b])
             PROVE  FALSE
  BY DEF NoDoubleBooking
<1>1. ASSUME NEW x \in Bookings, IsActive(x)' PROVE IsActive(x) \/ CommitBooking(x)
  BY <1>1 DEF StatusStep, IsActive, Active, Terminal
<1>2. ASSUME NEW x \in Bookings, NEW y \in Bookings, x # y, CommitBooking(x), IsActive(y)'
      PROVE  IsActive(y)
  BY <1>2 DEF CommitBooking, Insert, IsActive, TypeOK, StateTypeOK
<1>3. CASE IsActive(a) /\ IsActive(b)
  BY <1>3 DEF NoDoubleBooking
<1>4. CASE CommitBooking(a)
  BY <1>2, <1>4, CommitMeetsNoRival, OverlapIsSymmetric
<1>5. CASE CommitBooking(b)
  BY <1>2, <1>5, CommitMeetsNoRival
<1> QED
  BY <1>1, <1>3, <1>4, <1>5

-----------------------------------------------------------------------------
(* Time passes.                                                            *)

LEMMA TickHolds ==
  ASSUME Tick, TypeOK, NEW b \in Bookings, NEW h, Holds(b, h),
         now + 1 < checkedAt[b] + TTL
  PROVE  Holds(b, h)'
<1>1. PICK l \in locks : /\ l.key = KeyOf(b, h) /\ l.owner = b
                         /\ l.until >= checkedAt[b] + TTL
  BY DEF Holds
<1>2. l.until > now + 1
  <2>1. l.until \in Nat /\ checkedAt[b] \in Nat /\ now \in Nat
    BY DEF TypeOK, StateTypeOK, CreateTypeOK
  <2>2. \A i, j, k \in Nat : i >= j + TTL /\ k + 1 < j + TTL => i > k + 1
    BY StateAssumption
  <2> QED
    BY <1>1, <2>1, <2>2
<1> QED
  BY <1>1, <1>2 DEF Tick, Unexpired, Holds, createVars

LEMMA TickKeeps ==
  ASSUME TimelyRequests, IInv, Tick
  PROVE  (Timely /\ OneOwnerPerKey /\ AcquiredIsHeld /\ RivalIsLocked /\ NoDoubleBooking)'
<1> USE DEF IInv, RowInv
<1>1. now' = now + 1 /\ UNCHANGED <<status, pc, todo, checkedAt>>
  BY DEF Tick, createVars
<1>2. now \in Nat /\ \A r \in Bookings : checkedAt[r] \in Nat
  BY DEF TypeOK, StateTypeOK, CreateTypeOK
<1>3. ASSUME NEW r \in Bookings, InFlight(r)
      PROVE  /\ checkedAt[r] <= now + 1 /\ now + 1 <= checkedAt[r] + MaxRequest
             /\ now + 1 < checkedAt[r] + TTL
  <2>1. checkedAt[r] <= now /\ now < checkedAt[r] + MaxRequest
    BY <1>3 DEF Tick, Timely
  <2>2. \A i, n \in Nat : i <= n /\ n < i + MaxRequest
          => i <= n + 1 /\ n + 1 <= i + MaxRequest /\ n + 1 < i + TTL
    BY StateAssumption, SystemAssumption DEF TimelyRequests
  <2> QED
    BY <1>2, <2>1, <2>2
<1>4. Timely'
  BY <1>1, <1>3 DEF Timely, InFlight
<1>5. OneOwnerPerKey'
  BY DEF Tick, Unexpired, OneOwnerPerKey
<1>6. AcquiredIsHeld'
  BY <1>1, <1>3, TickHolds DEF AcquiredIsHeld, InFlight
<1>7. RivalIsLocked'
  <2> SUFFICES ASSUME NEW b \in Bookings, NEW r \in Bookings, b # r, IsActive(b), InFlight(r),
                      Overlap(SlotOf[b], SlotOf[r])
               PROVE  /\ checkedAt[r] <= checkedAt[b] + MaxRequest
                      /\ \A h \in Hours(b) : Holds(b, h)'
    BY <1>1 DEF RivalIsLocked, IsActive, InFlight
  <2>1. checkedAt[r] <= checkedAt[b] + MaxRequest /\ \A h \in Hours(b) : Holds(b, h)
    BY DEF RivalIsLocked
  <2>2. now + 1 < checkedAt[b] + TTL
    <3>1. now + 1 <= checkedAt[r] + MaxRequest
      BY <1>3
    <3>2. \A i, j, n \in Nat : n + 1 <= i + MaxRequest /\ i <= j + MaxRequest => n + 1 < j + TTL
      BY StateAssumption, SystemAssumption DEF TimelyRequests
    <3> QED
      BY <1>2, <2>1, <3>1, <3>2
  <2> QED
    BY <2>1, <2>2, TickHolds
<1>8. NoDoubleBooking'
  BY <1>1 DEF NoDoubleBooking, IsActive
<1> QED
  BY <1>4, <1>5, <1>6, <1>7, <1>8

-----------------------------------------------------------------------------
LEMMA IInvInit == Init => IInv
<1> SUFFICES ASSUME Init PROVE IInv
  OBVIOUS
<1>1. AskedInHours /\ Timely /\ OneOwnerPerKey /\ AcquiredIsHeld /\ RivalIsLocked /\ NoDoubleBooking
  BY DEF Init, StateInit, CreateInit, AskedInHours, Timely, OneOwnerPerKey, AcquiredIsHeld,
         RivalIsLocked, NoDoubleBooking, InFlight, IsActive, Active
<1> QED
  BY <1>1, RowInvInit DEF IInv

LEMMA IInvNext ==
  ASSUME SlotsCovered, TimelyRequests, ReliableStores
  PROVE  IInv /\ [Next]_vars => IInv'
<1> SUFFICES ASSUME IInv, [Next]_vars PROVE IInv'
  OBVIOUS
<1>1. StatusStep /\ RowInv' /\ AskedInHours'
  BY StatusSteps, RowInvNext, AskedNext DEF IInv, RowInv, ReliableStores
<1>2. CASE UNCHANGED vars
  BY <1>1, <1>2 DEF vars, stateVars, createVars, IInv, Timely, OneOwnerPerKey, AcquiredIsHeld,
     RivalIsLocked, NoDoubleBooking, InFlight, IsActive, Holds
<1>3. CASE Tick
  BY <1>1, <1>3, TickKeeps DEF IInv
<1>4. CASE Next /\ ~Tick
  <2>1. LockStep
    BY <1>4, LockSteps DEF IInv, ReliableStores
  <2> QED
    BY <1>1, <1>4, <2>1, TimelyNext, OneOwnerNext, AcquiredNext, RivalNext,
       NoDoubleBookingNext DEF IInv, RowInv
<1> QED
  BY <1>2, <1>3, <1>4

\* The invariant holds for any number of requests, cancellations, jobs and
\* failures, if every pair of slots is covered by its keys, no request outstays
\* half the lock's ttl, and the stores are reliable.
THEOREM InvariantHolds ==
  ASSUME SlotsCovered, TimelyRequests, ReliableStores
  PROVE  Spec => []IInv
  BY IInvInit, IInvNext, PTL DEF Spec

\* The promise of README.md:126: a drone is never booked twice for one moment.
THEOREM NoDroneIsBookedTwice ==
  ASSUME SlotsCovered, TimelyRequests, ReliableStores
  PROVE  Spec => []NoDoubleBooking
<1>1. IInv => NoDoubleBooking
  BY DEF IInv
<1> QED
  BY <1>1, InvariantHolds, PTL

\* The critical section of create_booking.py is protected up to the commit.
THEOREM CommitsHoldTheirLocks ==
  ASSUME SlotsCovered, TimelyRequests, ReliableStores
  PROVE  Spec => []SavedHoldsItsLocks
<1>1. IInv => SavedHoldsItsLocks
  BY DEF IInv, AcquiredIsHeld, SavedHoldsItsLocks, InFlight, Holds
<1> QED
  BY <1>1, InvariantHolds, PTL

\* The same promise in terms of what clients ask for: slots in one timezone
\* that end on the hour, the next midnight included.
THEOREM HourlySlotsAreBookedOnce ==
  ASSUME TimelyRequests, ReliableStores,
         \A a \in Bookings : /\ IsSlot(SlotOf[a]) /\ OnTheHour(SlotOf[a])
                             /\ \A b \in Bookings : SameOffset(SlotOf[a], SlotOf[b])
  PROVE  Spec => []NoDoubleBooking
<1>1. SlotsCovered
  BY OnTheHourSlotsCollide DEF SlotsCovered
<1> QED
  BY <1>1, NoDroneIsBookedTwice
===============================================================================
