------------------------------ MODULE SlotKeys ------------------------------
(***************************************************************************)
(* The time arithmetic of a booking: the domain rules a request must pass  *)
(* (domain/booking_rules.py), the test for two slots that overlap          *)
(* (BookingRepository.find_overlapping) and the Redis keys a slot locks    *)
(* (CreateBookingUseCase.execute, RedisSlotLock._build_key).               *)
(*                                                                         *)
(* A datetime is [at, off]: `at` counts minutes of UTC from a midnight,    *)
(* `off` is the offset, in minutes, of the timezone the value carries.     *)
(* Python compares aware datetimes by instant (`at`), while .date(), .hour *)
(* and .time() read the local clock (`at + off`).                          *)
(***************************************************************************)
EXTENDS Integers

CONSTANTS MinHour,    \* BOOKING_MIN_HOUR
          MaxHour,    \* BOOKING_MAX_HOUR
          MinMinutes  \* the default min_minutes of validate_minimum_duration

\* The hours datetime.time takes: any other raises in validate_operating_hours.
ASSUME HoursAssumption == /\ MinHour \in 0 .. 23
                          /\ MaxHour \in 0 .. 23
                          /\ MinMinutes \in Nat

IsSlot(slot) == {slot.start, slot.end} \subseteq [at : Int, off : Int]

Local(t) == t.at + t.off
Day(t) == Local(t) \div 1440
TimeOfDay(t) == Local(t) % 1440
Hour(t) == TimeOfDay(t) \div 60

-----------------------------------------------------------------------------
(* The domain rules.  package and area are validated with the constants    *)
(* True that create_booking passes, so they never fail.                    *)

NotInPast(slot, now) == slot.start.at > now

OperatingHours(slot) ==
  /\ TimeOfDay(slot.start) >= 60 * MinHour
  /\ TimeOfDay(slot.end) <= 60 * MaxHour
  /\ slot.start.at < slot.end.at

MinimumDuration(slot) == slot.end.at - slot.start.at >= MinMinutes

ValidNewBooking(slot, now) ==
  NotInPast(slot, now) /\ OperatingHours(slot) /\ MinimumDuration(slot)

-----------------------------------------------------------------------------
(* Overlap and lock keys.                                                  *)

Overlap(s, t) == /\ s.drone = t.drone
                 /\ s.start.at < t.end.at
                 /\ s.end.at > t.start.at

\* A plausible slip: locking the hour of an exclusive end.
EndHourInclusive(slot) == IF Hour(slot.end) = 0 THEN 24 ELSE Hour(slot.end) + 1

\* A plausible slip: the midnight rule dropped.
EndHourNoMidnight(slot) == Hour(slot.end)

\* `end_time.hour or 24`
EndHour(slot) == IF Hour(slot.end) = 0 THEN 24 ELSE Hour(slot.end)

\* range(start_hour, end_hour): empty unless the start comes first.
LockHours(slot) == Hour(slot.start) .. (EndHour(slot) - 1)

\* A plausible slip: a key string without the hour.
KeyOfDay(slot, h) == <<slot.drone, Day(slot.start)>>

\* The key string determines its three parts: date and hour have fixed width.
Key(slot, h) == <<slot.drone, Day(slot.start), h>>

LockKeys(slot) == {Key(slot, h) : h \in LockHours(slot)}

\* A slot read back from PostgreSQL: the same instants, in the timezone of the
\* database session.
InDbZone(slot, off) ==
  [slot EXCEPT !.start = [at |-> @.at, off |-> off],
               !.end = [at |-> @.at, off |-> off]]

-----------------------------------------------------------------------------
(* What the keys are for.                                                  *)

\* The shape of slot for which the keys cover the whole time booked: it ends
\* on the hour, on the local day it starts on or at the midnight closing it.
OnTheHour(slot) == /\ TimeOfDay(slot.end) % 60 = 0
                   /\ Local(slot.end) <= 1440 * (Day(slot.start) + 1)

\* With MinHour = 0 a slot may end at 00:30 of the day it starts on.  The midnight rule
\* of EndHour then locks that whole day, hours of other slots included.
LocksWholeDay(slot) == Day(slot.end) = Day(slot.start) /\ Hour(slot.end) = 0

SameOffset(s, t) == {s.end.off, t.start.off, t.end.off} = {s.start.off}

\* Two slots that overlap compete for a key, so that no two requests for them
\* can hold all their locks at one time.
KeysCollide(s, t) == Overlap(s, t) => LockKeys(s) \cap LockKeys(t) # {}

\* Two slots that do not overlap compete for no key, so that a request is never
\* refused (503) for a slot that is free.
NoFalseConflict(s, t) == ~Overlap(s, t) => LockKeys(s) \cap LockKeys(t) = {}
=============================================================================
