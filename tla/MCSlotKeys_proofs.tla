-------------------------- MODULE MCSlotKeys_proofs --------------------------
(***************************************************************************)
(* What TLC finds on the pairs of one grid holds on every grid: for all    *)
(* start times, lengths and offsets and every setting of the hours.        *)
(***************************************************************************)
EXTENDS MCSlotKeys, SlotKeys_proofs

\* The two slots are slots of the grid that pass the rules.
OnTheGrid == first \in Slots /\ second \in Slots

LEMMA GridSlotsAreValid == \A s \in Slots : IsSlot(s) /\ OperatingHours(s)
<1>1. ASSUME NEW m \in Starts, NEW n \in Durations, NEW o \in Offsets, NEW d
      PROVE  IsSlot(SlotAt(d, m, n, o))
  BY <1>1, GridAssumption DEF IsSlot, SlotAt
<1> QED
  BY <1>1 DEF Slots, ValidNewBooking

LEMMA StaysOnTheGrid == Spec => []OnTheGrid
<1>1. Init => OnTheGrid
  BY DEF Init, OnTheGrid
<1>2. OnTheGrid /\ [Next]_vars => OnTheGrid'
  BY DEF OnTheGrid, Next, vars, Slots
<1> QED
  BY <1>1, <1>2, PTL DEF Spec

\* Slots that end on the hour compete for a lock whenever they overlap, whatever
\* the grid (find_overlapping against acquire_locks_for_booking).
THEOREM GridOverlapsCollide == Spec => []OverlapMeansCollision
<1>1. OnTheGrid => OverlapMeansCollision
  BY GridSlotsAreValid, OnTheHourSlotsCollide DEF OnTheGrid, OverlapMeansCollision
<1> QED
  BY <1>1, StaysOnTheGrid, PTL

\* Slots on one clock compete for a lock only if they overlap, whatever the grid.
THEOREM GridCollisionsOverlap == Spec => []CollisionMeansOverlap
<1>1. OnTheGrid => CollisionMeansOverlap
  BY GridSlotsAreValid, ApartSlotsShareNoKey DEF OnTheGrid, CollisionMeansOverlap
<1> QED
  BY <1>1, StaysOnTheGrid, PTL
===============================================================================
