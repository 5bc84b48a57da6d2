------------------------------ MODULE MCBooking ------------------------------
(***************************************************************************)
(* Instances of BookingSystem for TLC: sets of slots that differ in what   *)
(* their lock keys cover.  A booking of one drone on one day each, wanted  *)
(* by users of their own.                                                  *)
(***************************************************************************)
EXTENDS BookingRefinement, TLC

CONSTANTS b1, b2, u1, u2

\* A slot from minute `from` to minute `to` of UTC, asked for at offset `off`.
SlotAt(from, to, off) == [drone |-> "d1",
                          start |-> [at |-> from, off |-> off],
                          end |-> [at |-> to, off |-> off]]

\* A slot of the next day, in minutes of the local clock.
SlotFrom(from, to, off) == SlotAt(1440 + from - off, 1440 + to - off, off)

\* 09:00-11:00 and 10:00-12:00: two hours each, one in common.
HourSlots == b1 :> SlotFrom(540, 660, 0) @@ b2 :> SlotFrom(600, 720, 0)

\* 09:00-10:30 and 10:00-11:00: the half hour in common has no key of b1.
PartialHourSlots == b1 :> SlotFrom(540, 630, 0) @@ b2 :> SlotFrom(600, 660, 0)

\* 09:00-10:00 UTC, and the same hour asked for as 16:00-17:00+07:00.
OffsetSlots == b1 :> SlotFrom(540, 600, 0) @@ b2 :> SlotFrom(960, 1020, 420)

\* 09:00-10:00 and 10:00-12:00: no moment in common.
DisjointSlots == b1 :> SlotFrom(540, 600, 0) @@ b2 :> SlotFrom(600, 720, 0)

\* 10:00-11:00+09:00, and 09:02-11:00+09:00, two minutes from now.
SoonSlots == b1 :> SlotAt(60, 120, 540) @@ b2 :> SlotAt(2, 120, 540)

TwoUsers == b1 :> u1 @@ b2 :> u2
=============================================================================
