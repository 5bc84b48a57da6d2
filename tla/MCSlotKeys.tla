----------------------------- MODULE MCSlotKeys -----------------------------
(***************************************************************************)
(* TLC walks through pairs of slots: `first` is any slot the rules accept, *)
(* `second` moves through all the others.                                  *)
(***************************************************************************)
EXTENDS SlotKeys

CONSTANTS Starts,    \* start times of day, minutes of the local clock
          Durations, \* lengths, minutes
          Offsets    \* timezone offsets, minutes

ASSUME GridAssumption ==
  Starts \subseteq Int /\ Durations \subseteq Int /\ Offsets \subseteq Int

VARIABLES first, second
vars == <<first, second>>

\* Both ends carry one offset, as a client's own clock does; the local day is
\* the second one so that no instant is negative.
SlotAt(drone, start, length, off) ==
  [drone |-> drone,
   start |-> [at |-> 1440 + start - off, off |-> off],
   end |-> [at |-> 1440 + start - off + length, off |-> off]]

Slots == {s \in {SlotAt(d, m, n, o) : d \in {"d1", "d2"}, m \in Starts,
                                     n \in Durations, o \in Offsets} :
            ValidNewBooking(s, 0)}

Init == /\ first \in {s \in Slots : s.drone = "d1"}
        /\ second = first

Next == /\ second' \in Slots
        /\ UNCHANGED first

Spec == Init /\ [][Next]_vars

\* find_overlapping and the Redis locks agree on the slots that end on the
\* hour: two that overlap always compete for a lock, so the lock decides the
\* race between requests that both saw the slot free.
OverlapMeansCollision ==
  (OnTheHour(first) /\ OnTheHour(second) /\ SameOffset(first, second))
    => KeysCollide(first, second)

\* For requests on one clock the locks never refuse a free slot, whatever the
\* minutes, and even when a slot runs over midnight, unless one ends in the first
\* hour of the day it starts on, which takes opening hours from midnight.
CollisionMeansOverlap ==
  SameOffset(first, second) /\ ~LocksWholeDay(first) /\ ~LocksWholeDay(second)
    => NoFalseConflict(first, second)
=============================================================================
