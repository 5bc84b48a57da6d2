------------------------- MODULE BookingRecord_proofs -------------------------
(***************************************************************************)
(* RecordInv is inductive with no hypothesis at all: what table, events,   *)
(* reports and locks say of a booking agrees, although Redis may lose keys *)
(* and a COMMIT that raises may have taken effect, for any number of       *)
(* requests, jobs and failures.                                            *)
(***************************************************************************)
EXTENDS BookingInvariant_proofs, FiniteSetTheorems

-----------------------------------------------------------------------------
(* What a step may do to the table.                                        *)

\* The COMMIT of request r stores its row, whether or not it raises.
Inserts(r) == /\ pc[r] = "saved" /\ pc'[r] \in {"committed", "failing"}
              /\ Insert(r)

TableKept == UNCHANGED <<status, expiredAt>>

\* A row gets a terminal status: EXPIRED only from a job that has it in hand.
Ends(b) == /\ status[b] # "ABSENT"
           /\ \/ status' = [status EXCEPT ![b] = "CANCELLED"]
              \/ /\ status' = [status EXCEPT ![b] = "EXPIRED"]
                 /\ \E e \in Expirers : b \in current[e]
           /\ UNCHANGED expiredAt

LEMMA CreateTable ==
  ASSUME TypeOK, NEW r \in Bookings, CreateNext(r)
  PROVE  TableKept \/ Inserts(r)
<1> USE DEF TableKept, Inserts, GoTo, TypeOK, CreateTypeOK, stateVars
<1>1. CASE CommitBooking(r)
  BY <1>1 DEF CommitBooking
<1>2. CASE SaveOrCommitFails(r)
  BY <1>2 DEF SaveOrCommitFails
<1> QED
  BY <1>1, <1>2 DEF CreateNext, Proceed, Start, Refuse, AcquireLock, LockTaken, SaveBooking,
     PublishCreated, ReleaseLock, GiveUp, RedisFails, Crash

LEMMA CancelTable ==
  ASSUME TypeOK, CancelKnowsRow, NEW c \in Cancellers, CancelNext(c)
  PROVE  TableKept \/ \E b \in Bookings : Ends(b)
<1> USE DEF TableKept, Ends, stateVars
<1>1. CASE cpc[c] = "merged" /\ WriteCancelled(c) /\ UNCHANGED expiredAt
  <2>1. target[c] \in Bookings /\ status[target[c]] # "ABSENT"
    BY <1>1 DEF CancelKnowsRow, TypeOK, CancelTypeOK
  <2> QED
    BY <1>1, <2>1 DEF WriteCancelled
<1> QED
  BY <1>1 DEF CancelNext, CancelProceed, Load, Merge, CommitCancel, CancelFails

LEMMA ExpireTable ==
  ASSUME TypeOK, ExpirerKnowsRow, NEW e \in Expirers, ExpireNext(e)
  PROVE  TableKept \/ \E b \in Bookings : Ends(b)
<1> USE DEF TableKept, stateVars
<1>1. ASSUME NEW b \in Bookings, b \in current[e], WriteExpired(e, b), UNCHANGED expiredAt
      PROVE  TableKept \/ Ends(b)
  <2>1. status[b] # "ABSENT"
    BY <1>1 DEF ExpirerKnowsRow, KnowsCurrent
  <2> QED
    BY <1>1, <2>1 DEF WriteExpired, Ends
<1>2. ASSUME NEW b \in Bookings, CommitExpired(e, b) PROVE TableKept \/ Ends(b)
  BY <1>1, <1>2 DEF CommitExpired
<1>3. ASSUME NEW b \in Bookings, SqlFails(e, b) PROVE TableKept \/ Ends(b)
  BY <1>1, <1>3 DEF SqlFails
<1> QED
  BY <1>2, <1>3 DEF ExpireNext, ExpireProceed, Find, Finish, MergeExpired, ReleaseExpired,
     PublishExpired, SessionUnusable, FindFails, ExpirerCrash, RedisFailsExpiring, expireVars

LEMMA TableSteps ==
  ASSUME RecordInv, [Next]_vars
  PROVE  \/ TableKept
         \/ \E r \in Bookings : Inserts(r) /\ status[r] = "ABSENT"
         \/ \E b \in Bookings : Ends(b) /\ UNCHANGED pc
<1> USE DEF RecordInv
<1>1. ASSUME NEW r \in Bookings, CreateNext(r)
      PROVE  TableKept \/ (Inserts(r) /\ status[r] = "ABSENT")
  BY <1>1, CreateTable DEF Inserts, RowAfterCommit
<1>2. CASE UNCHANGED vars \/ Tick \/ Evict
  BY <1>2 DEF TableKept, vars, stateVars, Tick, Evict
<1>3. ASSUME NEW c \in Cancellers, CancelNext(c), UNCHANGED <<createVars, expireVars>>
      PROVE  TableKept \/ \E b \in Bookings : Ends(b) /\ UNCHANGED pc
  BY <1>3, CancelTable DEF createVars
<1>4. ASSUME NEW e \in Expirers, ExpireNext(e), UNCHANGED <<createVars, cancelVars>>
      PROVE  TableKept \/ \E b \in Bookings : Ends(b) /\ UNCHANGED pc
  BY <1>4, ExpireTable DEF createVars
<1> QED
  BY <1>1, <1>2, <1>3, <1>4 DEF Next

\* Rows stay, and so do their deadlines.
LEMMA RecordRowsStay ==
  ASSUME RecordInv, [Next]_vars
  PROVE  /\ RowsKept
         /\ \A b \in Bookings : status[b] # "ABSENT" => expiredAt'[b] = expiredAt[b]
<1> USE DEF RecordInv, RowsKept, TypeOK, StateTypeOK, Terminal
<1>1. CASE TableKept
  BY <1>1 DEF TableKept
<1>2. ASSUME NEW r \in Bookings, Inserts(r), status[r] = "ABSENT"
      PROVE  /\ RowsKept
             /\ \A b \in Bookings : status[b] # "ABSENT" => expiredAt'[b] = expiredAt[b]
  BY <1>2 DEF Inserts, Insert
<1>3. ASSUME NEW b \in Bookings, Ends(b)
      PROVE  /\ RowsKept
             /\ \A c \in Bookings : status[c] # "ABSENT" => expiredAt'[c] = expiredAt[c]
  BY <1>3 DEF Ends
<1> QED
  BY <1>1, <1>2, <1>3, TableSteps

LEMMA TimeGoesOn == ASSUME TypeOK, [Next]_vars PROVE now' \in Nat /\ now <= now'
<1>1. now \in Nat
  BY DEF TypeOK, StateTypeOK
<1>2. ASSUME NEW r \in Bookings, CreateNext(r) PROVE now' = now
  BY <1>2 DEF stateVars, CreateNext, Proceed, Start, Refuse, AcquireLock, LockTaken, SaveBooking,
     CommitBooking, PublishCreated, SaveOrCommitFails, ReleaseLock, GiveUp, RedisFails, Crash
<1>3. ASSUME NEW c \in Cancellers, CancelNext(c) PROVE now' = now
  BY <1>3 DEF stateVars, CancelNext, CancelProceed, Load, Merge, CommitCancel, CancelFails
<1>4. ASSUME NEW e \in Expirers, ExpireNext(e) PROVE now' = now
  BY <1>4 DEF stateVars, ExpireNext, ExpireProceed, Find, Finish, MergeExpired, CommitExpired,
     ReleaseExpired, PublishExpired, SessionUnusable, FindFails, ExpirerCrash, SqlFails,
     RedisFailsExpiring
<1>5. now' = now \/ now' = now + 1
  BY <1>2, <1>3, <1>4 DEF Next, vars, stateVars, Tick, Evict
<1> QED
  BY <1>1, <1>5

-----------------------------------------------------------------------------
(* RecordInv is inductive.                                                 *)

LEMMA RowAfterCommitNext ==
  ASSUME RecordInv, [Next]_vars
  PROVE  RowAfterCommit'
<1> USE DEF RecordInv, RowAfterCommit, TypeOK, StateTypeOK, CreateTypeOK
<1>1. RowsKept
  BY RecordRowsStay
<1>2. CASE UNCHANGED pc
  <2>1. ~\E r \in Bookings : Inserts(r)
    BY <1>2 DEF Inserts
  <2> QED
    BY <1>2, <2>1, TableSteps DEF TableKept, Ends
<1>3. ASSUME NEW r \in Bookings, CreateNext(r) PROVE RowAfterCommit'
  <2>1. \A b \in Bookings \ {r} : pc'[b] = pc[b]
    BY <1>3 DEF GoTo, CreateNext, Proceed, Start, Refuse, AcquireLock, LockTaken, SaveBooking,
       CommitBooking, PublishCreated, SaveOrCommitFails, ReleaseLock, GiveUp, RedisFails, Crash,
       stateVars
  <2>2. CASE Inserts(r)
    BY <2>1, <2>2 DEF Inserts, Insert
  <2>3. CASE TableKept
    <3>1. status[r] # "ABSENT"
            => pc'[r] \in {"committed", "201", "crashed", "failing", "500"}
      BY <1>3 DEF GoTo, CreateNext, Proceed, Start, Refuse, AcquireLock, LockTaken,
         SaveBooking, CommitBooking, PublishCreated, SaveOrCommitFails, ReleaseLock, GiveUp,
         RedisFails, Crash, Releasing
    <3>2. pc'[r] \in {"committed", "201"} => pc[r] \in {"committed", "201"} \/ Inserts(r)
      BY <1>3 DEF GoTo, CreateNext, Proceed, Start, Refuse, AcquireLock, LockTaken,
         SaveBooking, CommitBooking, PublishCreated, SaveOrCommitFails, ReleaseLock, GiveUp,
         RedisFails, Crash, Inserts
    <3> QED
      BY <2>1, <2>2, <2>3, <3>1, <3>2 DEF TableKept
  <2> QED
    BY <1>3, <2>2, <2>3, CreateTable
<1> QED
  BY <1>2, <1>3 DEF Next, vars, createVars, Tick

\* A row is inserted with one status and overwritten with two.
LEMMA RowStatusesNext ==
  ASSUME RecordInv, [Next]_vars
  PROVE  RowStatuses'
<1> USE DEF RecordInv, RowStatuses, TypeOK, StateTypeOK
<1>1. CASE TableKept
  BY <1>1 DEF TableKept
<1>2. ASSUME NEW r \in Bookings, Inserts(r) PROVE RowStatuses'
  BY <1>2 DEF Inserts, Insert
<1>3. ASSUME NEW b \in Bookings, Ends(b) PROVE RowStatuses'
  BY <1>3 DEF Ends
<1> QED
  BY <1>1, <1>2, <1>3, TableSteps

\* The window is counted from the save, and the save comes after the query.
LEMMA WindowGrantedNext ==
  ASSUME RecordInv, [Next]_vars
  PROVE  WindowGranted'
<1> USE StateAssumption DEF RecordInv
<1>1. RequestStep
  BY RequestSteps
<1> SUFFICES ASSUME NEW r \in Bookings
             PROVE  /\ pc'[r] = "saved" => checkedAt'[r] + Expiry <= dueAt'[r]
                    /\ status'[r] # "ABSENT" => checkedAt'[r] + Expiry <= expiredAt'[r]
  BY DEF WindowGranted
<1>2. ASSUME pc'[r] = "saved" PROVE checkedAt'[r] + Expiry <= dueAt'[r]
  <2>1. CASE Stays(r)
    BY <1>2, <2>1 DEF Stays, WindowGranted
  <2>2. CASE GoesOn(r)
    <3>1. checkedAt'[r] = checkedAt[r] /\ dueAt'[r] = now + Expiry /\ InFlight(r)
      BY <1>2, <2>2 DEF GoesOn, InFlight
    <3>2. checkedAt[r] <= now /\ checkedAt[r] \in Nat /\ now \in Nat
      BY <3>1 DEF Timely, TypeOK, StateTypeOK, CreateTypeOK
    <3> QED
      BY <3>1, <3>2
  <2> QED
    BY <1>1, <1>2, <2>1, <2>2 DEF RequestStep, Begins
<1>3. ASSUME status'[r] # "ABSENT" PROVE checkedAt'[r] + Expiry <= expiredAt'[r]
  <2>1. CASE status[r] # "ABSENT"
    <3>1. expiredAt'[r] = expiredAt[r]
      BY <2>1, RecordRowsStay
    <3>2. checkedAt'[r] = checkedAt[r]
      BY <1>1, <2>1 DEF RequestStep, Stays, Begins, GoesOn, RowAfterCommit
    <3> QED
      BY <2>1, <3>1, <3>2 DEF WindowGranted
  <2>2. CASE status[r] = "ABSENT"
    <3>1. Inserts(r)
      BY <1>3, <2>2, TableSteps DEF TableKept, Ends, Inserts, Insert, TypeOK, StateTypeOK
    <3>2. pc[r] = "saved" /\ expiredAt'[r] = dueAt[r]
      BY <3>1 DEF Inserts, Insert, TypeOK, StateTypeOK
    <3>3. checkedAt'[r] = checkedAt[r]
      BY <1>1, <3>2 DEF RequestStep, Stays, Begins, GoesOn
    <3> QED
      BY <3>2, <3>3 DEF WindowGranted
  <2> QED
    BY <2>1, <2>2
<1> QED
  BY <1>2, <1>3

\* Only the job, and the last step of a request, publish.
LEMMA CreatedAtTheEndNext ==
  ASSUME RecordInv, [Next]_vars
  PROVE  CreatedAtTheEnd'
<1> USE DEF RecordInv, CreatedAtTheEnd, TypeOK, StateTypeOK, CreateTypeOK, EventTypes
<1>1. CASE UNCHANGED <<pc, events>>
  BY <1>1
<1>2. ASSUME NEW r \in Bookings, CreateNext(r) PROVE CreatedAtTheEnd'
  <2>1. CASE PublishCreated(r)
    <3>1. pc[r] = "committed" /\ pc' = [pc EXCEPT ![r] = "201"] /\ Publish("booking.created", r)
      BY <2>1 DEF PublishCreated, GoTo
    <3>2. events["booking.created"][r] = 0
      BY <3>1
    <3> QED
      BY <3>1, <3>2 DEF Publish
  <2>2. CASE UNCHANGED events /\ pc[r] # "201" /\ \A b \in Bookings \ {r} : pc'[b] = pc[b]
    BY <2>2
  <2>3. CASE ~PublishCreated(r)
    <3>1. UNCHANGED events /\ pc[r] # "201" /\ \A b \in Bookings \ {r} : pc'[b] = pc[b]
      BY <1>2, <2>3 DEF GoTo, CreateNext, Proceed, Start, Refuse, AcquireLock, LockTaken,
         SaveBooking, CommitBooking, SaveOrCommitFails, ReleaseLock, GiveUp, RedisFails, Crash,
         Releasing, stateVars
    <3> QED
      BY <2>2, <3>1
  <2> QED
    BY <2>1, <2>3
<1>3. ASSUME NEW e \in Expirers, ExpireNext(e), UNCHANGED pc PROVE CreatedAtTheEnd'
  <2>1. ASSUME NEW b \in Bookings, PublishExpired(e, b) PROVE CreatedAtTheEnd'
    BY <1>3, <2>1 DEF PublishExpired, Publish
  <2> QED
    BY <1>1, <1>3, <2>1
    DEF stateVars, ExpireNext, ExpireProceed, Find, Finish, MergeExpired, CommitExpired,
        ReleaseExpired, SessionUnusable, FindFails, ExpirerCrash, SqlFails, RedisFailsExpiring
<1>4. ASSUME NEW c \in Cancellers, CancelNext(c), UNCHANGED pc PROVE CreatedAtTheEnd'
  BY <1>1, <1>4 DEF stateVars, CancelNext, CancelProceed, Load, Merge, CommitCancel, CancelFails
<1> QED
  BY <1>1, <1>2, <1>3, <1>4 DEF Next, vars, stateVars, createVars, Tick, Evict

\* What a run of the job has at hand is what it had, or what find_expired returns.
LEMMA JobHasOverdue ==
  ASSUME RecordInv, NEW e \in Expirers, ExpireNext(e)
  PROVE  /\ found'[e] \cup current'[e] \subseteq found[e] \cup current[e] \cup FindExpired
         /\ found'[e] \cap current'[e] = {}
         /\ \A d \in Expirers \ {e} : found'[d] = found[d] /\ current'[d] = current[d]
<1> USE DEF RecordInv, DeadlinesPassed, TypeOK, ExpireTypeOK
<1>1. CASE UNCHANGED <<found, current>>
  BY <1>1
<1>2. CASE Find(e) \/ ExpirerCrash(e)
  BY <1>2 DEF Find, ExpirerCrash, NewRun
<1>3. ASSUME NEW b \in Bookings, MergeExpired(e, b)
      PROVE  /\ found'[e] \cup current'[e] \subseteq found[e] \cup current[e]
             /\ found'[e] \cap current'[e] = {}
             /\ \A d \in Expirers \ {e} : found'[d] = found[d] /\ current'[d] = current[d]
  BY <1>3 DEF MergeExpired
<1>4. ASSUME NEW b \in Bookings, Skip(e, b) \/ PublishExpired(e, b)
      PROVE  /\ found'[e] \cup current'[e] \subseteq found[e] \cup current[e]
             /\ found'[e] \cap current'[e] = {}
             /\ \A d \in Expirers \ {e} : found'[d] = found[d] /\ current'[d] = current[d]
  BY <1>4 DEF Skip, PublishExpired
<1> QED
  BY <1>1, <1>2, <1>3, <1>4
  DEF ExpireNext, ExpireProceed, Finish, CommitExpired, ReleaseExpired, SessionUnusable,
      FindFails, SqlFails, RedisFailsExpiring, expireVars

LEMMA DeadlinesPassedNext ==
  ASSUME RecordInv, [Next]_vars
  PROVE  DeadlinesPassed'
<1> USE DEF RecordInv, DeadlinesPassed
<1>1. now \in Nat /\ now' \in Nat /\ now <= now'
  BY TimeGoesOn DEF TypeOK, StateTypeOK
<1>2. ASSUME NEW b \in Bookings, status[b] # "ABSENT", expiredAt[b] <= now
      PROVE  expiredAt'[b] <= now'
  <2>1. expiredAt'[b] = expiredAt[b] /\ expiredAt[b] \in Nat
    BY <1>2, RecordRowsStay DEF TypeOK, StateTypeOK
  <2> QED
    BY <1>1, <1>2, <2>1
<1>3. ASSUME NEW e \in Expirers, NEW b \in found[e] \cup current[e] PROVE expiredAt'[b] <= now'
  <2>1. b \in Bookings /\ status[b] # "ABSENT"
    BY <1>3 DEF TypeOK, ExpireTypeOK, ExpirerKnowsRow, KnowsFound, KnowsCurrent
  <2> QED
    BY <1>2, <1>3, <2>1
<1>4. ASSUME NEW b \in FindExpired PROVE expiredAt'[b] <= now'
  BY <1>2, <1>4 DEF FindExpired
<1>5. CASE UNCHANGED expireVars
  BY <1>3, <1>5 DEF expireVars
<1>6. ASSUME NEW e \in Expirers, ExpireNext(e) PROVE DeadlinesPassed'
  BY <1>3, <1>4, <1>6, JobHasOverdue
<1> QED
  BY <1>5, <1>6 DEF Next, vars, Tick

LEMMA NeverExpiredEarlyNext ==
  ASSUME RecordInv, [Next]_vars
  PROVE  NeverExpiredEarly'
<1> USE DEF RecordInv
<1> SUFFICES ASSUME NEW b \in Bookings, status'[b] = "EXPIRED" PROVE expiredAt'[b] <= now'
  BY WindowGrantedNext DEF NeverExpiredEarly, WindowGranted
<1>1. status[b] # "ABSENT" /\ expiredAt[b] <= now
  <2>1. CASE status[b] = "EXPIRED"
    BY <2>1 DEF NeverExpiredEarly
  <2>2. CASE status[b] # "EXPIRED"
    <3>1. ~TableKept /\ \A r \in Bookings : ~Inserts(r)
      BY <2>2 DEF TableKept, Inserts, Insert, TypeOK, StateTypeOK
    <3>2. PICK c \in Bookings : Ends(c)
      BY <3>1, TableSteps
    <3>3. c = b /\ \E e \in Expirers : b \in current[e]
      BY <2>2, <3>2 DEF Ends, TypeOK, StateTypeOK
    <3> QED
      BY <3>2, <3>3 DEF Ends, DeadlinesPassed
  <2> QED
    BY <2>1, <2>2
<1>2. expiredAt'[b] = expiredAt[b] /\ expiredAt[b] \in Nat
  BY <1>1, RecordRowsStay DEF TypeOK, StateTypeOK
<1> QED
  BY <1>1, <1>2, TimeGoesOn DEF TypeOK, StateTypeOK

LEMMA ReportedIsReleasedNext ==
  ASSUME RecordInv, [Next]_vars
  PROVE  ReportedIsReleased'
<1> USE DEF RecordInv
<1> SUFFICES ASSUME NEW e \in Expirers, NEW b \in expired'[e] PROVE status'[b] \in Terminal
  BY DEF ReportedIsReleased
<1>1. ASSUME b \in expired[e] PROVE status'[b] \in Terminal
  <2>1. b \in Bookings /\ status[b] \in Terminal /\ status[b] # "ABSENT"
    BY <1>1 DEF ReportedIsReleased, TypeOK, ExpireTypeOK, Terminal
  <2> QED
    BY <2>1, RecordRowsStay DEF RowsKept
<1>2. ASSUME NEW c \in Bookings, PublishExpired(e, c) PROVE status'[b] \in Terminal
  <2>1. status[c] \in Terminal /\ status' = status /\ (b = c \/ b \in expired[e])
    BY <1>2 DEF PublishExpired, ExpirerKnowsRow, KnowsCurrent, TypeOK, ExpireTypeOK
  <2> QED
    BY <1>1, <2>1
<1>3. CASE UNCHANGED expireVars
  BY <1>1, <1>3 DEF expireVars
<1>4. ASSUME NEW d \in Expirers, ExpireNext(d) PROVE status'[b] \in Terminal
  <2>1. CASE d # e
    <3>1. expired'[e] = expired[e]
      BY <1>4, <2>1 DEF TypeOK, ExpireTypeOK, ExpireNext, ExpireProceed, Find, Finish,
         MergeExpired, CommitExpired, ReleaseExpired, PublishExpired, SessionUnusable,
         FindFails, ExpirerCrash, SqlFails, RedisFailsExpiring, NewRun, Skip, expireVars
    <3> QED
      BY <1>1, <3>1
  <2>2. CASE d = e /\ ~\E c \in Bookings : PublishExpired(e, c)
    <3>1. expired'[e] \subseteq expired[e]
      BY <1>4, <2>2 DEF TypeOK, ExpireTypeOK, ExpireNext, ExpireProceed, Find, Finish,
         MergeExpired, CommitExpired, ReleaseExpired, SessionUnusable,
         FindFails, ExpirerCrash, SqlFails, RedisFailsExpiring, NewRun, Skip, expireVars
    <3> QED
      BY <1>1, <3>1
  <2> QED
    BY <1>2, <2>1, <2>2
<1> QED
  BY <1>3, <1>4 DEF Next, vars, Tick

-----------------------------------------------------------------------------
(* Locks.                                                                  *)

\* The part of LocksFollowLoop about one lock.
Follows(l) ==
  /\ pc[l.owner] \notin {"idle", "409", "422", "503"}
  /\ pc[l.owner] = "locking" => \E h \in Hours(l.owner) \ todo[l.owner] : l.key = KeyOf(l.owner, h)
  /\ pc[l.owner] = "undo" => \E h \in todo[l.owner] : l.key = KeyOf(l.owner, h)

\* Locks vanish whenever they like.
LEMMA FewerLocks ==
  ASSUME LocksFollowLoop, locks' \subseteq locks, UNCHANGED <<pc, todo>>
  PROVE  LocksFollowLoop'
  BY DEF LocksFollowLoop

\* A step of request r matters to its own locks.
LEMMA OwnLocks ==
  ASSUME RecordInv, NEW r \in Bookings, NEW l \in locks, l.owner # r,
         \A b \in Bookings \ {r} : pc'[b] = pc[b] /\ todo'[b] = todo[b]
  PROVE  Follows(l)'
<1>1. l.owner \in Bookings \ {r}
  BY DEF RecordInv, TypeOK, StateTypeOK
<1> QED
  BY <1>1 DEF RecordInv, LocksFollowLoop, Follows

LEMMA LocksFollowCreate ==
  ASSUME RecordInv, NEW r \in Bookings, CreateNext(r)
  PROVE  LocksFollowLoop'
<1> USE DEF RecordInv, TypeOK, StateTypeOK, CreateTypeOK, GoTo, Loop
<1>1. \A b \in Bookings \ {r} : pc'[b] = pc[b] /\ todo'[b] = todo[b]
  BY DEF CreateNext, Proceed, Start, Refuse, AcquireLock, LockTaken, SaveBooking,
     CommitBooking, PublishCreated, SaveOrCommitFails, ReleaseLock, GiveUp, RedisFails, Crash,
     stateVars
<1>2. ASSUME NEW l \in locks, l.owner = r
      PROVE  /\ pc[r] \notin {"idle", "409", "422", "503"}
             /\ pc[r] = "locking" => \E h \in Hours(r) \ todo[r] : l.key = KeyOf(r, h)
             /\ pc[r] = "undo" => \E h \in todo[r] : l.key = KeyOf(r, h)
  BY <1>2 DEF LocksFollowLoop
<1> SUFFICES ASSUME NEW l \in locks' PROVE Follows(l)'
  BY DEF LocksFollowLoop, Follows
<1>3. CASE AcquireLock(r)
  <2>1. PICK h \in todo[r] : /\ pc[r] = "locking" /\ pc' = pc
                             /\ locks' = locks \cup {Lock(KeyOf(r, h), r)}
                             /\ todo' = [todo EXCEPT ![r] = todo[r] \ {h}]
    BY <1>3 DEF AcquireLock, SetNX
  <2>2. h \in Hours(r) \ todo'[r] /\ todo'[r] \subseteq todo[r]
    BY <2>1
  <2>3. CASE l = Lock(KeyOf(r, h), r)
    BY <2>1, <2>2, <2>3 DEF Lock, Follows
  <2>4. CASE l \in locks /\ l.owner = r
    BY <1>2, <2>1, <2>2, <2>4 DEF Follows
  <2> QED
    BY <1>1, <2>1, <2>3, <2>4, OwnLocks
<1>4. CASE ReleaseLock(r)
  <2>1. PICK h \in todo[r] : /\ Releasing(r) /\ pc' = pc
                             /\ Release(KeyOf(r, h), r)
                             /\ todo' = [todo EXCEPT ![r] = todo[r] \ {h}]
    BY <1>4 DEF ReleaseLock
  <2>2. l \in locks /\ (l.owner = r => l.key # KeyOf(r, h))
    BY <2>1 DEF Release
  <2>3. CASE l.owner = r
    <3>1. /\ pc'[r] \in {"undo", "failing"}
          /\ pc'[r] = "undo" => \E g \in todo[r] : l.key = KeyOf(r, g)
      BY <1>2, <2>1, <2>2, <2>3 DEF Releasing
    <3>2. pc'[r] = "undo" => \E g \in todo'[r] : l.key = KeyOf(r, g)
      BY <2>1, <2>2, <2>3, <3>1
    <3> QED
      BY <2>3, <3>1, <3>2 DEF Follows
  <2> QED
    BY <1>1, <2>2, <2>3, OwnLocks
<1>5. CASE LockTaken(r)
  <2>1. pc'[r] = "undo" /\ pc[r] = "locking" /\ todo'[r] = Hours(r) \ todo[r] /\ locks' = locks
    BY <1>5 DEF LockTaken, stateVars
  <2>2. CASE l.owner = r
    BY <1>2, <2>1, <2>2 DEF Follows
  <2> QED
    BY <1>1, <2>1, <2>2, OwnLocks
<1>6. CASE RedisFails(r)
  <2>1. /\ pc'[r] = "500"
        /\ \A m \in locks' \ locks : m.owner = r
    BY <1>6 DEF RedisFails, SetNX, Lock, MaybeRelease, Release
  <2>2. CASE l.owner = r
    BY <2>1, <2>2 DEF Follows
  <2> QED
    BY <1>1, <2>1, <2>2, OwnLocks
<1>7. CASE GiveUp(r)
  <2>1. /\ pc[r] \in {"undo", "failing"} /\ todo[r] = {} /\ locks' = locks
        /\ pc'[r] = IF pc[r] = "undo" THEN "503" ELSE "500"
    BY <1>7 DEF GiveUp, Releasing, stateVars
  <2>2. CASE l.owner = r
    BY <1>2, <2>1, <2>2 DEF Follows
  <2> QED
    BY <1>1, <2>1, <2>2, OwnLocks
<1>8. CASE Start(r) \/ Refuse(r)
  <2>1. pc[r] = "idle" /\ locks' = locks
    BY <1>8 DEF Start, Refuse, stateVars
  <2> QED
    BY <1>1, <1>2, <2>1, OwnLocks
<1>9. CASE SaveBooking(r) \/ CommitBooking(r) \/ PublishCreated(r) \/ SaveOrCommitFails(r)
           \/ Crash(r)
  <2>1. pc'[r] \in {"saved", "committed", "201", "failing", "crashed"} /\ locks' = locks
    BY <1>9 DEF SaveBooking, CommitBooking, PublishCreated, SaveOrCommitFails, Crash, stateVars
  <2>2. CASE l.owner = r
    BY <2>1, <2>2 DEF Follows
  <2> QED
    BY <1>1, <2>1, <2>2, OwnLocks
<1> QED
  BY <1>3, <1>4, <1>5, <1>6, <1>7, <1>8, <1>9 DEF CreateNext, Proceed

LEMMA LocksFollowLoopNext ==
  ASSUME RecordInv, [Next]_vars
  PROVE  LocksFollowLoop'
<1> USE DEF RecordInv
<1>1. CASE UNCHANGED vars \/ Tick \/ (Evict /\ UNCHANGED <<createVars, cancelVars, expireVars>>)
  BY <1>1, FewerLocks DEF vars, stateVars, createVars, Tick, Unexpired, Evict
<1>2. ASSUME NEW c \in Cancellers, CancelNext(c), UNCHANGED <<createVars, expireVars>>
      PROVE  LocksFollowLoop'
  BY <1>2, FewerLocks
  DEF createVars, stateVars, CancelNext, CancelProceed, Load, Merge, CommitCancel, CancelFails
<1>3. ASSUME NEW e \in Expirers, ExpireNext(e), UNCHANGED <<createVars, cancelVars>>
      PROVE  LocksFollowLoop'
  <2>1. locks' \subseteq locks
    BY <1>3 DEF stateVars, ExpireNext, ExpireProceed, Find, Finish, MergeExpired, CommitExpired,
       ReleaseExpired, PublishExpired, SessionUnusable, FindFails, ExpirerCrash, SqlFails,
       RedisFailsExpiring, MaybeRelease, Release
  <2> QED
    BY <1>3, <2>1, FewerLocks DEF createVars
<1> QED
  BY <1>1, <1>2, <1>3, LocksFollowCreate DEF Next

-----------------------------------------------------------------------------
LEMMA RecordInvInit == Init => RecordInv
<1> SUFFICES ASSUME Init PROVE RecordInv
  OBVIOUS
<1>1. /\ Timely /\ RowAfterCommit /\ RowStatuses /\ CreatedAtTheEnd /\ DeadlinesPassed
      /\ WindowGranted /\ NeverExpiredEarly /\ ReportedIsReleased /\ LocksFollowLoop
  BY DEF Init, StateInit, EventTypes, CreateInit, ExpireInit, Timely, InFlight, RowAfterCommit,
         RowStatuses, CreatedAtTheEnd, DeadlinesPassed, WindowGranted, NeverExpiredEarly,
         ReportedIsReleased, LocksFollowLoop
<1> QED
  BY <1>1, RowInvInit DEF RowInv, RecordInv

LEMMA RecordInvNext == RecordInv /\ [Next]_vars => RecordInv'
<1> SUFFICES ASSUME RecordInv, [Next]_vars PROVE RecordInv'
  OBVIOUS
<1>1. RowsKept
  BY RecordRowsStay
<1>2. TypeOK' /\ CancelKnowsRow' /\ ExpirerKnowsRow' /\ Timely'
  BY <1>1, TypesNext, CancelKnowsRowNext, ExpirerKnowsRowNext, TimelyNext DEF RecordInv
<1> QED
  BY <1>2, RowAfterCommitNext, RowStatusesNext, CreatedAtTheEndNext, DeadlinesPassedNext,
     WindowGrantedNext, NeverExpiredEarlyNext, ReportedIsReleasedNext, LocksFollowLoopNext
  DEF RecordInv

\* What table, events, reports and locks say of a booking agrees, whatever fails.
THEOREM RecordsAgree == Spec => []RecordInv
  BY RecordInvInit, RecordInvNext, PTL DEF Spec

\* No booking.created about a booking that is not in the table, and no second one
\* (publish_booking_created comes after the commit).
THEOREM CreatedAfterCommit == Spec => []CreatedEventHasRow
<1>1. RecordInv => CreatedEventHasRow
  BY DEF RecordInv, CreatedAtTheEnd, RowAfterCommit, CreatedEventHasRow
<1> QED
  BY <1>1, RecordsAgree, PTL

\* The payment window is honoured by any number of jobs (find_expired).
THEOREM WindowIsHonoured == Spec => []NeverExpiredEarly
<1>1. RecordInv => NeverExpiredEarly
  BY DEF RecordInv
<1> QED
  BY <1>1, RecordsAgree, PTL

\* Every id in expired_ids is of a booking that occupies no slot any more.
THEOREM ReportsAreTrue == Spec => []ReportedIsReleased
<1>1. RecordInv => ReportedIsReleased
  BY DEF RecordInv
<1> QED
  BY <1>1, RecordsAgree, PTL

\* A refused request leaves no lock (the rollback of acquire_locks_for_booking).
THEOREM RefusalsReleaseAll == Spec => []RefusedHoldsNothing
<1>1. RecordInv => RefusedHoldsNothing
  BY DEF RecordInv, LocksFollowLoop, RefusedHoldsNothing
<1> QED
  BY <1>1, RecordsAgree, PTL

\* A slot that was given back is not taken again by an old row: cancellation and
\* any number of jobs may overwrite each other and never bring a booking back.
THEOREM SlotsStayFree == Spec => InactiveStaysInactive
<1>1. RecordInv /\ [Next]_vars
        => [\A b \in Bookings : status[b] \in Terminal => status'[b] \in Terminal]_vars
  BY RecordRowsStay DEF RowsKept, Terminal
<1> QED
  BY <1>1, RecordsAgree, PTL DEF Spec, InactiveStaysInactive

\* What a client was told agrees with the table, whatever fails: only a 500 whose
\* COMMIT took effect and raised leaves a row.
THEOREM AnswersAreTrue == Spec => []AnswerMatchesRow
<1>1. CASE ~AmbiguousCommit
  <2>1. RowInv => AnswerMatchesRow
    BY DEF RowInv, RowHasRequest, CancelKnowsRow, AnswerMatchesRow
  <2> QED
    BY <1>1, <2>1, RowInvAlways, PTL
<1>2. CASE AmbiguousCommit
  <2>1. RecordInv => AnswerMatchesRow
    BY <1>2 DEF RecordInv, RowAfterCommit, CancelKnowsRow, AnswerMatchesRow
  <2> QED
    BY <2>1, RecordsAgree, PTL
<1> QED
  BY <1>1, <1>2

\* The rows follow the table of can_transition_to, which the code asks of its copies
\* only, but for a cancellation and an expiry that overwrite each other: nothing
\* else can come of any number of stale copies, failures and ambiguous commits.
THEOREM RowsObeyTheTable == Spec => RowsFollowTheTable
<1>1. ASSUME RecordInv, [Next]_vars, NEW b \in Bookings
      PROVE  MayBecome(status[b], status'[b])
  <2> USE DEF RecordInv, TypeOK, StateTypeOK
  <2>1. CASE TableKept
    BY <2>1 DEF TableKept, MayBecome
  <2>2. ASSUME NEW r \in Bookings, Inserts(r), status[r] = "ABSENT"
        PROVE  MayBecome(status[b], status'[b])
    BY <2>2 DEF Inserts, Insert, MayBecome
  <2>3. ASSUME NEW c \in Bookings, Ends(c)
        PROVE  MayBecome(status[b], status'[b])
    <3>1. \/ status'[b] = status[b]
          \/ /\ status[b] \in {"PENDING_PAYMENT", "CANCELLED", "EXPIRED"}
             /\ status'[b] \in {"CANCELLED", "EXPIRED"}
      <4>1. CASE b = c
        BY <1>1, <2>3, <4>1 DEF Ends, RowStatuses
      <4>2. CASE b # c
        BY <1>1, <2>3, <4>2 DEF Ends
      <4> QED
        BY <4>1, <4>2
    <3>2. ASSUME NEW s \in {"PENDING_PAYMENT", "CANCELLED", "EXPIRED"},
                 NEW t \in {"CANCELLED", "EXPIRED"}
          PROVE  MayBecome(s, t)
      <4>1. CASE s = "PENDING_PAYMENT"
        BY <4>1 DEF MayBecome, CanTransitionTo, Allowed
      <4>2. CASE s \in {"CANCELLED", "EXPIRED"}
        BY <4>2 DEF MayBecome
      <4> QED
        BY <4>1, <4>2
    <3> QED
      BY <3>1, <3>2 DEF MayBecome
  <2> HIDE DEF RecordInv
  <2> QED
    BY <1>1, <2>1, <2>2, <2>3, TableSteps
<1>2. RecordInv /\ [Next]_vars
        => [\A b \in Bookings : MayBecome(status[b], status'[b])]_vars
  BY <1>1
<1> QED
  BY <1>2, RecordsAgree, PTL DEF Spec, RowsFollowTheTable

-----------------------------------------------------------------------------
(* Events.                                                                 *)

\* An expiry is announced in one place only.
LEMMA ExpiredEvents ==
  ASSUME TypeOK, [Next]_vars, NEW b \in Bookings
  PROVE  \/ events'["booking.expired"][b] = events["booking.expired"][b]
         \/ \E e \in Expirers : PublishExpired(e, b)
<1> USE DEF TypeOK, StateTypeOK, EventTypes
<1>1. CASE UNCHANGED events
  BY <1>1
<1>2. ASSUME NEW r \in Bookings, CreateNext(r)
      PROVE  events'["booking.expired"] = events["booking.expired"]
  BY <1>2 DEF stateVars, CreateNext, Proceed, Start, Refuse, AcquireLock, LockTaken,
     SaveBooking, CommitBooking, PublishCreated, Publish, SaveOrCommitFails, ReleaseLock,
     GiveUp, RedisFails, Crash
<1>3. ASSUME NEW c \in Cancellers, CancelNext(c) PROVE UNCHANGED events
  BY <1>3 DEF stateVars, CancelNext, CancelProceed, Load, Merge, CommitCancel, CancelFails
<1>4. ASSUME NEW e \in Expirers, ExpireNext(e)
      PROVE  \/ events'["booking.expired"][b] = events["booking.expired"][b]
             \/ PublishExpired(e, b)
  <2>1. ASSUME NEW c \in Bookings, PublishExpired(e, c)
        PROVE  c = b \/ events'["booking.expired"][b] = events["booking.expired"][b]
    BY <2>1 DEF PublishExpired, Publish
  <2> QED
    BY <1>4, <2>1 DEF stateVars, ExpireNext, ExpireProceed, Find, Finish, MergeExpired,
       CommitExpired, ReleaseExpired, SessionUnusable, FindFails, ExpirerCrash, SqlFails,
       RedisFailsExpiring
<1> QED
  BY <1>1, <1>2, <1>3, <1>4 DEF Next, vars, stateVars, Tick, Evict

\* No job takes up a booking that has ended.
LEMMA FewerHandle ==
  ASSUME RecordInv, [Next]_vars, NEW b \in Bookings, status[b] \in Terminal
  PROVE  Handling(b)' \subseteq Handling(b)
<1>1. CASE UNCHANGED expireVars
  BY <1>1 DEF Handling, expireVars
<1>2. ASSUME NEW e \in Expirers, ExpireNext(e) PROVE Handling(b)' \subseteq Handling(b)
  <2>1. b \notin FindExpired
    BY DEF FindExpired, Terminal
  <2> QED
    BY <1>2, <2>1, JobHasOverdue DEF Handling
<1> QED
  BY <1>1, <1>2 DEF Next, vars, Tick

LEMMA HandlingIsFinite ==
  ASSUME NEW b
  PROVE  /\ IsFiniteSet(Handling(b)) /\ Cardinality(Handling(b)) \in Nat
         /\ Cardinality(Expirers) \in Nat
         /\ Cardinality(Handling(b)) <= Cardinality(Expirers)
<1>1. Handling(b) \in SUBSET Expirers
  BY DEF Handling
<1> QED
  BY <1>1, ExpirersAssumption, FS_Subset, FS_CardinalityType

\* The job that announces a booking no longer has it to do.
LEMMA AnnouncementIsLast ==
  ASSUME RecordInv, NEW b \in Bookings, NEW e \in Expirers, PublishExpired(e, b),
         Handling(b)' \subseteq Handling(b)
  PROVE  Cardinality(Handling(b)') + 1 <= Cardinality(Handling(b))
<1>1. e \in Handling(b) /\ status[b] \in Terminal
  BY DEF Handling, PublishExpired, RecordInv, ExpirerKnowsRow, KnowsCurrent
<1>2. e \notin Handling(b)'
  BY DEF Handling, PublishExpired, RecordInv, DeadlinesPassed, TypeOK, ExpireTypeOK
<1>3. Handling(b)' \in SUBSET (Handling(b) \ {e})
  BY <1>2
<1>4. /\ IsFiniteSet(Handling(b) \ {e})
      /\ Cardinality(Handling(b) \ {e}) = Cardinality(Handling(b)) - 1
  BY <1>1, HandlingIsFinite, FS_RemoveElement
<1>5. /\ Cardinality(Handling(b)') <= Cardinality(Handling(b) \ {e})
      /\ Cardinality(Handling(b)') \in Nat
  BY <1>3, <1>4, FS_Subset, FS_CardinalityType
<1> QED
  BY <1>4, <1>5, HandlingIsFinite

LEMMA OnceInvNext == OnceInv /\ [Next]_vars => OnceInv'
<1> SUFFICES ASSUME OnceInv, [Next]_vars,
                    NEW b \in Bookings
             PROVE  /\ events'["booking.expired"][b] > 0 => status'[b] \in Terminal
                    /\ events'["booking.expired"][b] <= Cardinality(Expirers)
                    /\ events'["booking.expired"][b] + Cardinality(Handling(b)')
                         <= Cardinality(Expirers)
  BY RecordInvNext DEF OnceInv, ExpiredEventOnce, OncePerJob
<1> USE DEF OnceInv
<1>1. /\ events["booking.expired"][b] \in Nat /\ events'["booking.expired"][b] \in Nat
      /\ Cardinality(Expirers) \in Nat
      /\ Cardinality(Handling(b)) \in Nat
  BY TypesNext, HandlingIsFinite DEF RecordInv, TypeOK, StateTypeOK, EventTypes
<1>2. Cardinality(Handling(b)') \in Nat /\ Cardinality(Handling(b)') <= Cardinality(Expirers)
  <2>1. Handling(b)' \in SUBSET Expirers
    BY DEF Handling
  <2> QED
    BY <2>1, ExpirersAssumption, FS_Subset, FS_CardinalityType
<1>3. events["booking.expired"][b] + Cardinality(Handling(b)) <= Cardinality(Expirers)
  BY DEF OncePerJob
<1>4. CASE status[b] \notin Terminal
  <2>1. ASSUME NEW e \in Expirers PROVE ~PublishExpired(e, b)
    BY <1>4 DEF PublishExpired, RecordInv, ExpirerKnowsRow, KnowsCurrent
  <2>2. events["booking.expired"][b] = 0 /\ events'["booking.expired"][b] = 0
    BY <1>1, <1>4, <2>1, ExpiredEvents DEF RecordInv, ExpiredEventOnce
  <2> QED
    BY <1>1, <1>2, <2>2
<1>5. CASE status[b] \in Terminal
  <2>1. status'[b] \in Terminal
    BY <1>5, RecordRowsStay DEF RowsKept, Terminal
  <2>2. Handling(b)' \subseteq Handling(b)
    BY <1>5, FewerHandle
  <2>3. CASE events'["booking.expired"][b] = events["booking.expired"][b]
    <3>1. Cardinality(Handling(b)') <= Cardinality(Handling(b))
      BY <2>2, HandlingIsFinite, FS_Subset
    <3> QED
      BY <1>1, <1>2, <1>3, <2>1, <2>3, <3>1
  <2>4. ASSUME NEW e \in Expirers, PublishExpired(e, b)
        PROVE  events'["booking.expired"][b] + Cardinality(Handling(b)') <= Cardinality(Expirers)
    <3>1. Cardinality(Handling(b)') + 1 <= Cardinality(Handling(b))
      BY <2>2, <2>4, AnnouncementIsLast
    <3>2. events'["booking.expired"][b] <= events["booking.expired"][b] + 1
      BY <1>1, <2>4 DEF PublishExpired, Publish, RecordInv, TypeOK, StateTypeOK, EventTypes
    <3> QED
      BY <1>1, <1>2, <1>3, <3>1, <3>2
  <2> QED
    BY <1>1, <1>2, <2>1, <2>3, <2>4, ExpiredEvents DEF RecordInv
<1> QED
  BY <1>4, <1>5

\* Each job announces an expiry at most once, however often it fails, dies and is
\* run again (_expire_single publishes after its commit, of rows find_expired read).
THEOREM AnnouncedOnce == Spec => []ExpiredEventOnce
<1>1. Init => OnceInv
  <2> SUFFICES ASSUME Init PROVE ExpiredEventOnce /\ OncePerJob
    BY RecordInvInit DEF OnceInv
  <2>1. \A b \in Bookings : events["booking.expired"][b] = 0
    BY DEF Init, StateInit, EventTypes
  <2> QED
    BY <2>1, HandlingIsFinite DEF ExpiredEventOnce, OncePerJob
<1>2. OnceInv => ExpiredEventOnce
  BY DEF OnceInv
<1> QED
  BY <1>1, <1>2, OnceInvNext, PTL DEF Spec

-----------------------------------------------------------------------------
(* What a failure may silence.                                             *)

\* The job publishes another event, of rows that exist.
LEMMA ExpirerLeavesRows ==
  ASSUME RecordInv, NEW e \in Expirers, ExpireNext(e), UNCHANGED createVars
  PROVE  UnannouncedRows' \subseteq UnannouncedRows
<1> USE DEF RecordInv, TypeOK, StateTypeOK, ExpireTypeOK, EventTypes
<1>1. UNCHANGED pc /\ events'["booking.created"] = events["booking.created"]
  BY DEF createVars, stateVars, ExpireNext, ExpireProceed, Find, Finish, MergeExpired,
     CommitExpired, ReleaseExpired, PublishExpired, Publish, SessionUnusable, FindFails,
     ExpirerCrash, SqlFails, RedisFailsExpiring
<1>2. \A b \in Bookings : status[b] = "ABSENT" => status'[b] = "ABSENT"
  BY DEF stateVars, ExpireNext, ExpireProceed, Find, Finish, MergeExpired,
     CommitExpired, ReleaseExpired, PublishExpired, SessionUnusable, FindFails,
     ExpirerCrash, SqlFails, RedisFailsExpiring, WriteExpired, ExpirerKnowsRow, KnowsCurrent
<1> QED
  BY <1>1, <1>2 DEF UnannouncedRows

\* A row with its event to come or sent stays one, unless its request fails.
LEMMA RowsSilenced ==
  ASSUME RecordInv, [Next]_vars
  PROVE  \/ UnannouncedRows' \subseteq UnannouncedRows
         \/ Fault /\ \E r \in Bookings : UnannouncedRows' \subseteq UnannouncedRows \cup {r}
<1> USE DEF RecordInv, TypeOK, StateTypeOK, CreateTypeOK, EventTypes
<1>1. CASE UNCHANGED <<pc, status, events>>
  BY <1>1 DEF UnannouncedRows
<1>2. ASSUME NEW r \in Bookings, CreateNext(r)
      PROVE  \/ UnannouncedRows' \subseteq UnannouncedRows
             \/ Fault /\ UnannouncedRows' \subseteq UnannouncedRows \cup {r}
  <2>1. \A b \in Bookings \ {r} :
          /\ status'[b] = status[b] /\ pc'[b] = pc[b]
          /\ events'["booking.created"][b] = events["booking.created"][b]
    <3>1. \A b \in Bookings \ {r} : status'[b] = status[b]
      BY <1>2, CreateTable DEF TableKept, Inserts, Insert
    <3>2. \A b \in Bookings \ {r} : pc'[b] = pc[b]
      BY <1>2 DEF GoTo, CreateNext, Proceed, Start, Refuse, AcquireLock, LockTaken,
         SaveBooking, CommitBooking, PublishCreated, SaveOrCommitFails,
         ReleaseLock, GiveUp, RedisFails, Crash
    <3>3. UNCHANGED events \/ Publish("booking.created", r)
      BY <1>2 DEF CreateNext, Proceed, Start, Refuse, AcquireLock, LockTaken,
         SaveBooking, CommitBooking, PublishCreated, SaveOrCommitFails,
         ReleaseLock, GiveUp, RedisFails, Crash, stateVars
    <3>4. \A b \in Bookings \ {r} :
            events'["booking.created"][b] = events["booking.created"][b]
      BY <3>3 DEF Publish
    <3> QED
      BY <3>1, <3>2, <3>4
  <2>2. UnannouncedRows' \subseteq UnannouncedRows \cup {r}
    BY <2>1 DEF UnannouncedRows
  <2>3. CASE PublishCreated(r)
    <3>1. events["booking.created"][r] = 0 /\ Publish("booking.created", r)
      BY <2>3 DEF PublishCreated, CreatedAtTheEnd
    <3>2. events'["booking.created"][r] = 1
      BY <3>1 DEF Publish
    <3> QED
      BY <2>2, <3>2 DEF UnannouncedRows
  <2>4. CASE CommitBooking(r)
    BY <2>2, <2>4 DEF CommitBooking, GoTo, UnannouncedRows
  <2>5. CASE ~(PublishCreated(r) \/ CommitBooking(r) \/ Fault)
    <3>1. /\ UNCHANGED <<status, events>>
          /\ pc[r] \in {"idle", "locking", "undo", "failing"} /\ pc'[r] # "committed"
      BY <1>2, <2>5 DEF GoTo, CreateNext, Proceed, Start, Refuse, AcquireLock, LockTaken,
         SaveBooking, SaveOrCommitFails, ReleaseLock, GiveUp, RedisFails, Crash, Releasing,
         stateVars
    <3> QED
      BY <2>2, <3>1 DEF UnannouncedRows
  <2> QED
    BY <2>2, <2>3, <2>4, <2>5
<1>3. ASSUME NEW c \in Cancellers, CancelNext(c), UNCHANGED createVars
      PROVE  UnannouncedRows' \subseteq UnannouncedRows
  <2>1. /\ UNCHANGED <<pc, events>>
        /\ \A b \in Bookings : status[b] = "ABSENT" => status'[b] = "ABSENT"
    BY <1>3 DEF createVars, stateVars, CancelNext, CancelProceed, Load, Merge, CommitCancel,
       CancelFails, WriteCancelled, CancelKnowsRow, CancelTypeOK
  <2> QED
    BY <2>1 DEF UnannouncedRows
<1>4. ASSUME NEW e \in Expirers, ExpireNext(e), UNCHANGED createVars
      PROVE  UnannouncedRows' \subseteq UnannouncedRows
  BY <1>4, ExpirerLeavesRows
<1> QED
  BY <1>1, <1>2, <1>3, <1>4 DEF Next, vars, stateVars, createVars, Tick, Evict

\* What a job's step silences is the booking it works on, and then it fails.
LEMMA ExpirerSilences ==
  ASSUME RecordInv, NEW e \in Expirers, ExpireNext(e),
         NEW b \in UnannouncedExpiries', b \notin UnannouncedExpiries
  PROVE  Fault /\ b \in current[e]
<1> USE DEF RecordInv, TypeOK, StateTypeOK, ExpireTypeOK, EventTypes
<1>1. /\ b \in Bookings /\ status'[b] = "EXPIRED" /\ events'["booking.expired"][b] = 0
      /\ \A d \in Expirers : ~(b \in current'[d] /\ epc'[d] = "releasing")
  BY DEF UnannouncedExpiries, Announcing
<1>2. ASSUME NEW c \in Bookings, PublishExpired(e, c)
      PROVE  /\ c # b /\ UNCHANGED status
             /\ events'["booking.expired"][b] = events["booking.expired"][b]
  <2>1. Publish("booking.expired", c)
    BY <1>2 DEF PublishExpired
  <2>2. events'["booking.expired"][c] = events["booking.expired"][c] + 1
    BY <2>1 DEF Publish
  <2>3. events["booking.expired"][c] \in Nat
    OBVIOUS
  <2>4. c # b
    BY <1>1, <2>2, <2>3
  <2> QED
    BY <1>1, <1>2, <2>1, <2>4 DEF Publish, PublishExpired
<1>3. events["booking.expired"][b] = 0
  <2>1. CASE \E c \in Bookings : PublishExpired(e, c)
    BY <1>1, <1>2, <2>1
  <2>2. CASE UNCHANGED events
    BY <1>1, <2>2
  <2> QED
    BY <2>1, <2>2 DEF stateVars, ExpireNext, ExpireProceed, Find, Finish, MergeExpired,
       CommitExpired, ReleaseExpired, SessionUnusable, FindFails, ExpirerCrash, SqlFails,
       RedisFailsExpiring
<1>4. CASE status[b] # "EXPIRED"
  <2>1. \E c \in Bookings : c \in current[e] /\ WriteExpired(e, c)
                            /\ (CommitExpired(e, c) \/ Fault)
    BY <1>1, <1>2, <1>4 DEF stateVars, ExpireNext, ExpireProceed, Find, Finish, MergeExpired,
       CommitExpired, ReleaseExpired, SessionUnusable, FindFails, ExpirerCrash, SqlFails,
       RedisFailsExpiring
  <2>2. PICK c \in Bookings : c \in current[e] /\ WriteExpired(e, c)
                              /\ (CommitExpired(e, c) \/ Fault)
    BY <2>1
  <2>3. c = b
    BY <1>1, <1>4, <2>2 DEF WriteExpired
  <2>4. ~CommitExpired(e, b)
    BY <1>1, <2>2, <2>3 DEF CommitExpired, EGoTo
  <2> QED
    BY <2>2, <2>3, <2>4
<1>5. CASE Announcing(b)
  <2>1. PICK d \in Expirers : b \in current[d] /\ epc[d] = "releasing"
    BY <1>5 DEF Announcing
  <2>2. ~(b \in current'[d] /\ epc'[d] = "releasing")
    BY <1>1
  <2>3. d = e
    <3>1. CASE d # e
      <4>1. current'[d] = current[d] /\ epc'[d] = epc[d]
        BY <3>1 DEF ExpireNext, ExpireProceed, Find, Finish, MergeExpired, CommitExpired,
           ReleaseExpired, PublishExpired, SessionUnusable, FindFails, ExpirerCrash, SqlFails,
           RedisFailsExpiring, NewRun, Skip, EGoTo, expireVars
      <4> QED
        BY <2>1, <2>2, <4>1
    <3> QED
      BY <3>1
  <2>4. \A c \in Bookings : c \in current[e] => c = b
    BY <2>1, <2>3 DEF ExpirerKnowsRow, KnowsCurrent
  <2>5. ASSUME NEW c \in Bookings PROVE ~ReleaseExpired(e, c) /\ ~PublishExpired(e, c)
    BY <1>2, <2>1, <2>2, <2>3, <2>4 DEF ReleaseExpired, PublishExpired
  <2>6. Fault
    BY <2>1, <2>2, <2>3, <2>5
    DEF ExpireNext, ExpireProceed, Find, Finish, MergeExpired, CommitExpired,
        SessionUnusable, FindFails, ExpirerCrash, SqlFails, RedisFailsExpiring
  <2> QED
    BY <2>1, <2>3, <2>6
<1> QED
  BY <1>1, <1>3, <1>4, <1>5 DEF UnannouncedExpiries

\* Only a job takes a row to EXPIRED or leaves one without its event.
LEMMA ExpiriesSilenced ==
  ASSUME RecordInv, [Next]_vars, ~(UnannouncedExpiries' \subseteq UnannouncedExpiries)
  PROVE  Fault /\ \E e \in Expirers, b \in Bookings :
                    ExpireNext(e) /\ UNCHANGED createVars
                      /\ UnannouncedExpiries' \subseteq UnannouncedExpiries \cup {b}
<1> USE DEF RecordInv, TypeOK, StateTypeOK, EventTypes
<1>1. ASSUME UNCHANGED expireVars,
             events'["booking.expired"] = events["booking.expired"],
             \A b \in Bookings : status'[b] = "EXPIRED" => status[b] = "EXPIRED"
      PROVE  FALSE
  BY <1>1 DEF UnannouncedExpiries, Announcing, expireVars
<1>2. ASSUME NEW r \in Bookings, CreateNext(r), UNCHANGED expireVars PROVE FALSE
  <2>1. events'["booking.expired"] = events["booking.expired"]
    BY <1>2 DEF stateVars, CreateNext, Proceed, Start, Refuse, AcquireLock, LockTaken,
       SaveBooking, CommitBooking, PublishCreated, Publish, SaveOrCommitFails, ReleaseLock,
       GiveUp, RedisFails, Crash
  <2>2. \A b \in Bookings : status'[b] = "EXPIRED" => status[b] = "EXPIRED"
    BY <1>2, CreateTable DEF TableKept, Inserts, Insert
  <2> QED
    BY <1>1, <1>2, <2>1, <2>2
<1>3. ASSUME NEW c \in Cancellers, CancelNext(c), UNCHANGED expireVars PROVE FALSE
  <2>1. UNCHANGED events
    BY <1>3 DEF CancelNext, CancelProceed, Load, Merge, CommitCancel, CancelFails, stateVars
  <2>2. \A b \in Bookings : status'[b] = "EXPIRED" => status[b] = "EXPIRED"
    BY <1>3 DEF CancelNext, CancelProceed, Load, Merge, CommitCancel, CancelFails,
       WriteCancelled, stateVars, CancelTypeOK
  <2> QED
    BY <1>1, <1>3, <2>1, <2>2
<1>4. PICK e \in Expirers : ExpireNext(e) /\ UNCHANGED createVars
  BY <1>1, <1>2, <1>3 DEF Next, vars, stateVars, Tick, Evict
<1>5. PICK b \in UnannouncedExpiries' : b \notin UnannouncedExpiries
  OBVIOUS
<1>6. Fault /\ b \in current[e] /\ b \in Bookings
  BY <1>4, <1>5, ExpirerSilences DEF UnannouncedExpiries
<1>7. current[e] = {b}
  BY <1>6 DEF ExpirerKnowsRow, KnowsCurrent
<1>8. UnannouncedExpiries' \subseteq UnannouncedExpiries \cup {b}
  BY <1>4, <1>7, ExpirerSilences
<1> QED
  BY <1>4, <1>6, <1>8

\* Whatever a step does, it silences nothing, or it is a failure that silences one.
LEMMA FailureSilencesOne ==
  ASSUME RecordInv, [Next]_vars
  PROVE  \/ Unannounced' \subseteq Unannounced
         \/ Fault /\ \E x : Unannounced' \subseteq Unannounced \cup {x}
<1>1. CASE UnannouncedExpiries' \subseteq UnannouncedExpiries
  BY <1>1, RowsSilenced DEF Unannounced
<1>2. CASE ~(UnannouncedExpiries' \subseteq UnannouncedExpiries)
  <2>1. PICK e \in Expirers, b \in Bookings :
          /\ Fault /\ ExpireNext(e) /\ UNCHANGED createVars
          /\ UnannouncedExpiries' \subseteq UnannouncedExpiries \cup {b}
    BY <1>2, ExpiriesSilenced
  <2>2. UnannouncedRows' \subseteq UnannouncedRows
    BY <2>1, ExpirerLeavesRows
  <2>3. Unannounced' \subseteq Unannounced \cup {<<"booking.expired", b>>}
    BY <2>1, <2>2 DEF Unannounced
  <2> QED
    BY <2>1, <2>3
<1> QED
  BY <1>1, <1>2

LEMMA FaultsGrow ==
  ASSUME TypeOK, [Next]_vars
  PROVE  faults \in Nat /\ faults' \in Nat /\ faults <= faults' /\ (Fault => faults' = faults + 1)
<1> USE DEF TypeOK, StateTypeOK, Fault
<1>1. CASE UNCHANGED faults \/ Fault
  BY <1>1
<1>2. ASSUME NEW r \in Bookings, CreateNext(r) PROVE UNCHANGED faults \/ Fault
  BY <1>2 DEF stateVars, CreateNext, Proceed, Start, Refuse, AcquireLock, LockTaken,
     SaveBooking, CommitBooking, PublishCreated, SaveOrCommitFails, ReleaseLock,
     GiveUp, RedisFails, Crash
<1>3. ASSUME NEW c \in Cancellers, CancelNext(c) PROVE UNCHANGED faults \/ Fault
  BY <1>3 DEF stateVars, CancelNext, CancelProceed, Load, Merge, CommitCancel, CancelFails
<1>4. ASSUME NEW e \in Expirers, ExpireNext(e) PROVE UNCHANGED faults \/ Fault
  BY <1>4 DEF stateVars, ExpireNext, ExpireProceed, Find, Finish, MergeExpired, CommitExpired,
     ReleaseExpired, PublishExpired, SessionUnusable, FindFails, ExpirerCrash,
     SqlFails, RedisFailsExpiring
<1> QED
  BY <1>1, <1>2, <1>3, <1>4 DEF Next, vars, stateVars, Tick, Evict

LEMMA SilencedInvNext == SilencedInv /\ [Next]_vars => SilencedInv'
<1> SUFFICES ASSUME SilencedInv, [Next]_vars
             PROVE  IsFiniteSet(Unannounced') /\ Cardinality(Unannounced') <= faults'
  BY RecordInvNext DEF SilencedInv, OneSilencedPerFailure
<1>1. /\ RecordInv /\ IsFiniteSet(Unannounced) /\ Cardinality(Unannounced) <= faults
      /\ Cardinality(Unannounced) \in Nat
  BY FS_CardinalityType DEF SilencedInv, OneSilencedPerFailure
<1>2. faults \in Nat /\ faults' \in Nat /\ faults <= faults' /\ (Fault => faults' = faults + 1)
  BY <1>1, FaultsGrow DEF RecordInv
<1>3. CASE Unannounced' \subseteq Unannounced
  <2>1. /\ IsFiniteSet(Unannounced') /\ Cardinality(Unannounced') <= Cardinality(Unannounced)
        /\ Cardinality(Unannounced') \in Nat
    BY <1>1, <1>3, FS_Subset, FS_CardinalityType
  <2> QED
    BY <1>1, <1>2, <2>1
<1>4. CASE Fault /\ \E x : Unannounced' \subseteq Unannounced \cup {x}
  <2>1. PICK x : Unannounced' \subseteq Unannounced \cup {x}
    BY <1>4
  <2>2. /\ IsFiniteSet(Unannounced \cup {x})
        /\ \/ Cardinality(Unannounced \cup {x}) = Cardinality(Unannounced)
           \/ Cardinality(Unannounced \cup {x}) = Cardinality(Unannounced) + 1
    BY <1>1, FS_AddElement
  <2>3. /\ IsFiniteSet(Unannounced')
        /\ Cardinality(Unannounced') <= Cardinality(Unannounced \cup {x})
        /\ Cardinality(Unannounced') \in Nat
    BY <2>1, <2>2, FS_Subset, FS_CardinalityType
  <2> QED
    BY <1>1, <1>2, <1>4, <2>2, <2>3
<1> QED
  BY <1>1, <1>3, <1>4, FailureSilencesOne

\* Any number of requests, cancellations and jobs, interleaved in any way: no more
\* new rows and expiries are left without their event than calls raised or processes
\* died (execute and _expire_single publish after their commit).
THEOREM SilenceIsCounted == Spec => []OneSilencedPerFailure
<1>1. Init => SilencedInv
  <2> SUFFICES ASSUME Init PROVE IsFiniteSet(Unannounced) /\ Cardinality(Unannounced) <= faults
    BY RecordInvInit DEF SilencedInv, OneSilencedPerFailure
  <2>1. Unannounced = {}
    BY DEF Init, StateInit, Unannounced, UnannouncedRows, UnannouncedExpiries
  <2> QED
    BY <2>1, FS_EmptySet DEF Init, StateInit
<1>2. SilencedInv => OneSilencedPerFailure
  BY DEF SilencedInv
<1> QED
  BY <1>1, <1>2, SilencedInvNext, PTL DEF Spec

-----------------------------------------------------------------------------
(* Refusals.                                                               *)

\* A lock that its owner's loop has just set.
JustSet(l) == /\ l.owner \in Bookings /\ pc[l.owner] = "locking"
              /\ l.key \in LockKeys(SlotOf[l.owner])
              /\ l.until = now + TTL
              /\ checkedAt'[l.owner] = checkedAt[l.owner]

\* The clock moves in Tick only, and locks are set in the loop only.
LEMMA NewLocks ==
  ASSUME RecordInv, [Next]_vars, ~Tick
  PROVE  now' = now /\ \A l \in locks' \ locks : JustSet(l)
<1> USE DEF RecordInv
<1>1. ASSUME NEW r \in Bookings, NEW h \in todo[r], pc[r] = "locking", SetNX(KeyOf(r, h), r),
             UNCHANGED checkedAt,
             NEW l \in locks' \ locks
      PROVE  JustSet(l)
  <2>1. l = Lock(KeyOf(r, h), r) /\ h \in Hours(r)
    BY <1>1 DEF SetNX, TypeOK, CreateTypeOK
  <2> QED
    BY <1>1, <2>1 DEF JustSet, Lock, KeyOf, LockKeys, Hours
<1>2. ASSUME NEW r \in Bookings, CreateNext(r)
      PROVE  now' = now /\ \A l \in locks' \ locks : JustSet(l)
  <2>1. now' = now
    BY <1>2 DEF stateVars, CreateNext, Proceed, Start, Refuse, AcquireLock, LockTaken,
       SaveBooking, CommitBooking, PublishCreated, SaveOrCommitFails, ReleaseLock, GiveUp,
       RedisFails, Crash
  <2>2. \/ locks' \subseteq locks
        \/ \E h \in todo[r] : pc[r] = "locking" /\ SetNX(KeyOf(r, h), r) /\ UNCHANGED checkedAt
    BY <1>2 DEF stateVars, CreateNext, Proceed, Start, Refuse, AcquireLock, LockTaken,
       SaveBooking, CommitBooking, PublishCreated, SaveOrCommitFails, ReleaseLock, GiveUp,
       RedisFails, Crash, MaybeRelease, Release
  <2> QED
    BY <1>1, <2>1, <2>2
<1>3. ASSUME NEW c \in Cancellers, CancelNext(c) PROVE UNCHANGED <<now, locks>>
  BY <1>3 DEF stateVars, CancelNext, CancelProceed, Load, Merge, CommitCancel, CancelFails
<1>4. ASSUME NEW e \in Expirers, ExpireNext(e) PROVE now' = now /\ locks' \subseteq locks
  BY <1>4 DEF stateVars, ExpireNext, ExpireProceed, Find, Finish, MergeExpired, CommitExpired,
     ReleaseExpired, PublishExpired, SessionUnusable, FindFails, ExpirerCrash, SqlFails,
     RedisFailsExpiring, MaybeRelease, Release
<1> QED
  BY <1>2, <1>3, <1>4 DEF Next, vars, stateVars, Evict

\* The owner of a lock that refuses a request asked for an overlapping time.
LEMMA TakenByARival ==
  ASSUME OneTimezone, NobodyLocksADay, RefusalInv, NEW r \in Bookings, LockTaken(r)
  PROVE  \E b \in Bookings \ {r} : RivalInTime(b, r)
<1> USE DEF RefusalInv, RecordInv
<1>1. PICK h \in todo[r] : pc[r] = "locking" /\ Taken(KeyOf(r, h))
  BY DEF LockTaken
<1>2. PICK l \in locks : l.key = KeyOf(r, h)
  BY <1>1 DEF Taken
<1>3. h \in Hours(r) /\ l.owner \in Bookings
  BY <1>1 DEF TypeOK, StateTypeOK, CreateTypeOK
<1>4. l.owner # r
  <2> SUFFICES ASSUME l.owner = r PROVE FALSE
    OBVIOUS
  <2>1. PICK g \in Hours(r) \ todo[r] : l.key = KeyOf(r, g)
    BY <1>1 DEF LocksFollowLoop
  <2> QED
    BY <1>2, <2>1 DEF KeyOf, Key
<1>5. l.key \in LockKeys(SlotOf[l.owner]) \cap LockKeys(SlotOf[r])
  BY <1>2, <1>3 DEF LocksInTime, LockKeys, KeyOf, Hours
<1>6. pc[l.owner] \notin {"idle", "409", "422"}
  BY DEF LocksFollowLoop
<1>7. Overlap(SlotOf[l.owner], SlotOf[r])
  <2>1. /\ IsSlot(SlotOf[l.owner]) /\ IsSlot(SlotOf[r])
        /\ SameOffset(SlotOf[l.owner], SlotOf[r])
    BY <1>3 DEF OneTimezone
  <2>2. OperatingHours(SlotOf[l.owner]) /\ OperatingHours(SlotOf[r])
    BY <1>1, <1>3, <1>6 DEF AskedInHours
  <2>3. NoFalseConflict(SlotOf[l.owner], SlotOf[r])
    BY <1>3, <2>1, <2>2, ApartSlotsShareNoKey DEF NobodyLocksADay
  <2> QED
    BY <1>5, <2>3 DEF NoFalseConflict
<1>8. checkedAt[r] < checkedAt[l.owner] + MaxRequest + TTL
  <2>1. checkedAt[r] <= now
    BY <1>1 DEF Timely, InFlight
  <2>2. now < l.until /\ l.until <= checkedAt[l.owner] + MaxRequest + TTL
    BY DEF LocksInTime
  <2> QED
    BY <1>3, <2>1, <2>2, StateAssumption, SystemAssumption
    DEF TypeOK, StateTypeOK, CreateTypeOK
<1> QED
  BY <1>3, <1>4, <1>6, <1>7, <1>8 DEF RivalInTime

\* What is known of a rival stays known.
LEMMA RivalStays ==
  ASSUME RecordInv, RequestStep, NEW b \in Bookings, NEW r \in Bookings, RivalInTime(b, r),
         checkedAt'[r] = checkedAt[r]
  PROVE  RivalInTime(b, r)'
<1>1. pc'[b] \notin {"idle", "409", "422"} /\ checkedAt'[b] = checkedAt[b]
  BY DEF RivalInTime, RequestStep, Stays, Begins, GoesOn
<1> QED
  BY <1>1 DEF RivalInTime

LEMMA UndoneForARivalNext ==
  ASSUME OneTimezone, NobodyLocksADay, RefusalInv, [Next]_vars
  PROVE  UndoneForARival'
<1> USE DEF RefusalInv, RecordInv
<1>1. RequestStep
  BY RequestSteps
<1> SUFFICES ASSUME NEW r \in Bookings
             PROVE  /\ pc'[r] \in {"undo", "503"}
                         => \E b \in Bookings \ {r} : RivalInTime(b, r)'
                    /\ pc'[r] = "409" => \E b \in Bookings \ {r} :
                         Overlap(SlotOf[b], SlotOf[r]) /\ status'[b] # "ABSENT"
  BY DEF UndoneForARival
<1>2. ASSUME pc'[r] \in {"undo", "503"} PROVE \E b \in Bookings \ {r} : RivalInTime(b, r)'
  <2>1. checkedAt'[r] = checkedAt[r] /\ (pc[r] \in {"undo", "503"} \/ LockTaken(r))
    BY <1>1, <1>2 DEF RequestStep, Stays, Begins, GoesOn
  <2>2. PICK b \in Bookings \ {r} : RivalInTime(b, r)
    BY <2>1, TakenByARival DEF UndoneForARival
  <2> QED
    BY <1>1, <2>1, <2>2, RivalStays
<1>3. ASSUME pc'[r] = "409"
      PROVE  \E b \in Bookings \ {r} : Overlap(SlotOf[b], SlotOf[r]) /\ status'[b] # "ABSENT"
  <2>1. pc[r] = "409" \/ (pc[r] = "idle" /\ FindOverlapping(SlotOf[r]) # {})
    BY <1>1, <1>3 DEF RequestStep, Stays, Begins, GoesOn
  <2>2. PICK b \in Bookings \ {r} : Overlap(SlotOf[b], SlotOf[r]) /\ status[b] # "ABSENT"
    <3>1. CASE pc[r] = "409"
      BY <3>1 DEF UndoneForARival
    <3>2. ASSUME pc[r] = "idle", NEW b \in FindOverlapping(SlotOf[r])
          PROVE  b \in Bookings \ {r} /\ Overlap(SlotOf[b], SlotOf[r]) /\ status[b] # "ABSENT"
      <4>1. b \in Bookings /\ status[b] # "ABSENT" /\ Overlap(SlotOf[b], SlotOf[r])
        BY DEF FindOverlapping, IsActive, Active
      <4> QED
        BY <3>2, <4>1 DEF RowAfterCommit
    <3> QED
      BY <2>1, <3>1, <3>2
  <2> QED
    BY <2>2, RecordRowsStay DEF RowsKept
<1> QED
  BY <1>2, <1>3

LEMMA LocksInTimeNext ==
  ASSUME RefusalInv, [Next]_vars
  PROVE  LocksInTime'
<1> USE DEF RefusalInv, RecordInv, TypeOK, StateTypeOK, CreateTypeOK
<1> USE StateAssumption, SystemAssumption
<1>1. CASE Tick
  BY <1>1 DEF Tick, createVars, Unexpired, LocksInTime
<1>2. CASE ~Tick
  <2>1. now' = now
    BY <1>2, NewLocks
  <2>2. ASSUME NEW l \in locks'
        PROVE  /\ l.key \in LockKeys(SlotOf[l.owner])
               /\ now' < l.until /\ l.until <= checkedAt'[l.owner] + MaxRequest + TTL
    <3>1. CASE l \in locks
      <4>1. l.owner \in Bookings /\ pc[l.owner] # "idle"
        BY <3>1 DEF LocksFollowLoop
      <4>2. checkedAt'[l.owner] = checkedAt[l.owner]
        BY <4>1, RequestSteps DEF RequestStep, Stays, Begins, GoesOn
      <4> QED
        BY <2>1, <3>1, <4>2 DEF LocksInTime
    <3>2. CASE l \notin locks
      <4>1. JustSet(l)
        BY <1>2, <2>2, <3>2, NewLocks
      <4>2. l.owner \in Bookings /\ now <= checkedAt[l.owner] + MaxRequest
        BY <4>1 DEF JustSet, Timely, InFlight
      <4> QED
        BY <2>1, <4>1, <4>2 DEF JustSet
    <3> QED
      BY <3>1, <3>2
  <2> QED
    BY <2>2 DEF LocksInTime
<1> QED
  BY <1>1, <1>2

LEMMA RefusalInvNext ==
  ASSUME OneTimezone, NobodyLocksADay
  PROVE  RefusalInv /\ [Next]_vars => RefusalInv'
<1> SUFFICES ASSUME RefusalInv, [Next]_vars PROVE RefusalInv'
  OBVIOUS
<1>1. RecordInv'
  BY RecordInvNext DEF RefusalInv
<1>2. AskedInHours'
  BY AskedNext DEF RefusalInv, RecordInv
<1> QED
  BY <1>1, <1>2, LocksInTimeNext, UndoneForARivalNext DEF RefusalInv

\* A request is refused for a rival only, and a 503 never for a lock that is older
\* than a flight and the ttl, whatever fails and however many requests compete, if
\* all name their times in one timezone and none ends its slot in the first hour of the
\* day (acquire_locks_for_booking).
THEOREM RefusalsHaveARival ==
  ASSUME OneTimezone, NobodyLocksADay
  PROVE  Spec => []RefusedOnlyForARival
<1>1. Init => RefusalInv
  <2> SUFFICES ASSUME Init PROVE AskedInHours /\ LocksInTime /\ UndoneForARival
    BY RecordInvInit DEF RefusalInv
  <2> QED
    BY DEF Init, StateInit, CreateInit, AskedInHours, LocksInTime, UndoneForARival
<1>2. RefusalInv => RefusedOnlyForARival
  BY DEF RefusalInv, UndoneForARival, RivalInTime, RefusedOnlyForARival
<1> QED
  BY <1>1, <1>2, RefusalInvNext, PTL DEF Spec
===============================================================================
