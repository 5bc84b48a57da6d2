--------------------------- MODULE SlotKeys_proofs ---------------------------
(***************************************************************************)
(* What the lock keys of two slots on one clock have in common, for every  *)
(* pair of slots the rules accept and every setting of the hours.          *)
(***************************************************************************)
EXTENDS SlotKeys, TLAPS

\* A time reads n minutes on the local clock: day d, minute m of it, hour h.
Reads(t, n, d, m, h) ==
  /\ Local(t) = n /\ Day(t) = d /\ TimeOfDay(t) = m /\ Hour(t) = h
  /\ n = 1440 * d + m /\ 0 <= m /\ m < 1440
  /\ 60 * h <= m /\ m < 60 * h + 60

LEMMA ClockReads ==
  ASSUME NEW t \in [at : Int, off : Int]
  PROVE  \E n, d, m, h \in Int : Reads(t, n, d, m, h)
<1>1. PICK n \in Int : n = Local(t)
  BY DEF Local
<1>2. PICK d \in Int : d = n \div 1440
  OBVIOUS
<1>3. PICK m \in Int : m = n % 1440
  OBVIOUS
<1>4. n = 1440 * d + m /\ 0 <= m /\ m < 1440
  BY <1>2, <1>3
<1>5. PICK h \in Int : h = m \div 60
  OBVIOUS
<1>6. PICK u \in Int : u = m % 60
  OBVIOUS
<1>7. m = 60 * h + u /\ 0 <= u /\ u < 60
  BY <1>5, <1>6
<1>8. 60 * h <= m /\ m < 60 * h + 60
  BY <1>7
<1>9. Day(t) = d /\ TimeOfDay(t) = m /\ Hour(t) = h
  BY <1>1, <1>2, <1>3, <1>5 DEF Day, TimeOfDay, Hour
<1> QED
  BY <1>1, <1>4, <1>8, <1>9 DEF Reads

\* On one clock, instants compare as local times do.
LEMMA OneClock ==
  ASSUME NEW s, NEW t, IsSlot(s), IsSlot(t), SameOffset(s, t)
  PROVE  /\ s.start.at < s.end.at <=> Local(s.start) < Local(s.end)
         /\ t.start.at < t.end.at <=> Local(t.start) < Local(t.end)
         /\ s.start.at < t.end.at <=> Local(s.start) < Local(t.end)
         /\ s.end.at > t.start.at <=> Local(t.start) < Local(s.end)
<1>1. /\ s.end.off = s.start.off /\ t.start.off = s.start.off /\ t.end.off = s.start.off
  BY DEF SameOffset
<1> QED
  BY <1>1 DEF IsSlot, Local

\* A valid slot on one clock: what its two ends read, and how they relate.
SlotReads(s, n, d, m, h, nn, dd, mm, hh) ==
  /\ Reads(s.start, n, d, m, h) /\ Reads(s.end, nn, dd, mm, hh)
  /\ n < nn

LEMMA ValidSlotReads ==
  ASSUME NEW s, IsSlot(s), OperatingHours(s), SameOffset(s, s)
  PROVE  \E n, d, m, h, nn, dd, mm, hh \in Int : SlotReads(s, n, d, m, h, nn, dd, mm, hh)
<1>1. s.start \in [at : Int, off : Int] /\ s.end \in [at : Int, off : Int]
  BY DEF IsSlot
<1>2. PICK n, d, m, h \in Int : Reads(s.start, n, d, m, h)
  BY <1>1, ClockReads
<1>3. PICK nn, dd, mm, hh \in Int : Reads(s.end, nn, dd, mm, hh)
  BY <1>1, ClockReads
<1>4. n < nn
  <2>1. Local(s.start) < Local(s.end)
    BY OneClock DEF OperatingHours
  <2> QED
    BY <2>1, <1>2, <1>3 DEF Reads
<1>5. SlotReads(s, n, d, m, h, nn, dd, mm, hh)
  BY <1>2, <1>3, <1>4 DEF SlotReads
<1> QED
  BY <1>5

\* The hours of a slot that ends on the hour reach its end.
LEMMA HoursReachEnd ==
  ASSUME NEW s, NEW n \in Int, NEW d \in Int, NEW m \in Int, NEW h \in Int,
         NEW nn \in Int, NEW dd \in Int, NEW mm \in Int, NEW hh \in Int,
         SlotReads(s, n, d, m, h, nn, dd, mm, hh), OnTheHour(s)
  PROVE  EndHour(s) \in Int /\ 60 * EndHour(s) = nn - 1440 * d /\ nn <= 1440 * d + 1440
<1>1. /\ n = 1440 * d + m /\ 0 <= m /\ m < 1440 /\ n < nn
      /\ nn = 1440 * dd + mm /\ 0 <= mm /\ mm < 1440
      /\ 60 * hh <= mm /\ mm < 60 * hh + 60
  BY DEF SlotReads, Reads
<1>2. nn <= 1440 * (d + 1) /\ mm % 60 = 0
  BY DEF OnTheHour, SlotReads, Reads
<1>3. mm = 60 * hh
  BY <1>1, <1>2
<1>4. EndHour(s) = IF hh = 0 THEN 24 ELSE hh
  BY DEF EndHour, SlotReads, Reads
<1>5. CASE hh = 0
  <2>1. dd = d + 1
    BY <1>1, <1>2, <1>3, <1>5
  <2> QED
    BY <1>1, <1>2, <1>3, <1>4, <1>5, <2>1
<1>6. CASE hh # 0
  <2>1. dd = d
    BY <1>1, <1>2, <1>3, <1>6
  <2> QED
    BY <1>1, <1>2, <1>3, <1>4, <1>6, <2>1
<1> QED
  BY <1>5, <1>6

\* Slots that end on the hour compete for a key whenever they overlap: the locks
\* of create_booking.py decide every race between requests for them.
THEOREM OnTheHourSlotsCollide ==
  ASSUME NEW s, NEW t, IsSlot(s), IsSlot(t), OperatingHours(s), OperatingHours(t),
         OnTheHour(s), OnTheHour(t), SameOffset(s, t)
  PROVE  KeysCollide(s, t)
<1> SUFFICES ASSUME Overlap(s, t)
             PROVE  LockKeys(s) \cap LockKeys(t) # {}
  BY DEF KeysCollide
<1>1. SameOffset(s, s) /\ SameOffset(t, t)
  BY DEF SameOffset
<1>2. PICK n, d, m, h, nn, dd, mm, hh \in Int : SlotReads(s, n, d, m, h, nn, dd, mm, hh)
  BY <1>1, ValidSlotReads
<1>3. PICK i, e, k, g, ii, ee, kk, gg \in Int : SlotReads(t, i, e, k, g, ii, ee, kk, gg)
  BY <1>1, ValidSlotReads
<1>4. n < ii /\ i < nn
  <2>1. Local(s.start) < Local(t.end) /\ Local(t.start) < Local(s.end)
    BY OneClock DEF Overlap
  <2> QED
    BY <2>1, <1>2, <1>3 DEF SlotReads, Reads
<1>5. /\ n = 1440 * d + m /\ n < nn /\ 0 <= m /\ 60 * h <= m
      /\ i = 1440 * e + k /\ i < ii /\ 0 <= k /\ 60 * g <= k
  BY <1>2, <1>3 DEF SlotReads, Reads
<1>6. /\ EndHour(s) \in Int /\ 60 * EndHour(s) = nn - 1440 * d /\ nn <= 1440 * d + 1440
      /\ EndHour(t) \in Int /\ 60 * EndHour(t) = ii - 1440 * e /\ ii <= 1440 * e + 1440
  BY <1>2, <1>3, HoursReachEnd
<1>7. d = e
  BY <1>4, <1>5, <1>6
<1>8. PICK y, z \in Int : /\ EndHour(s) = y /\ 60 * y = nn - 1440 * d
                          /\ EndHour(t) = z /\ 60 * z = ii - 1440 * e
  BY <1>6
<1>9. h < y /\ g < y /\ h < z /\ g < z
  BY <1>4, <1>5, <1>7, <1>8
<1>10. LockHours(s) = h .. (y - 1) /\ LockHours(t) = g .. (z - 1)
  BY <1>2, <1>3, <1>8 DEF LockHours, SlotReads, Reads
<1>11. \E x \in Int : x \in LockHours(s) /\ x \in LockHours(t)
  <2>1. CASE h <= g
    BY <1>9, <1>10, <2>1
  <2>2. CASE g <= h
    BY <1>9, <1>10, <2>2
  <2> QED
    BY <2>1, <2>2
<1>12. PICK x \in Int : x \in LockHours(s) /\ x \in LockHours(t)
  BY <1>11
<1>13. Key(s, x) = Key(t, x)
  BY <1>2, <1>3, <1>7 DEF Key, Overlap, SlotReads, Reads
<1> QED
  BY <1>12, <1>13 DEF LockKeys

\* The booking of one hour that begins on the hour in which slot s ends.
LastHourOf(s) ==
  LET from == s.end.at - (TimeOfDay(s.end) % 60)
  IN [drone |-> s.drone,
      start |-> [at |-> from, off |-> s.start.off],
      end |-> [at |-> from + 60, off |-> s.start.off]]

\* And nothing less than the hour will do: a slot that ends within an hour, but for the
\* first of the day, races with the booking of just that hour.  Both pass the rules,
\* overlap, and have no key in common (end_hour of create_booking.py is exclusive).
THEOREM PartialHoursAreExposed ==
  ASSUME NEW s, IsSlot(s), OperatingHours(s), SameOffset(s, s),
         Day(s.end) = Day(s.start), Hour(s.end) # 0, TimeOfDay(s.end) % 60 # 0,
         MinMinutes <= 60
  PROVE  LET t == LastHourOf(s)
         IN /\ IsSlot(t) /\ OperatingHours(t) /\ MinimumDuration(t)
            /\ OnTheHour(t) /\ SameOffset(s, t)
            /\ Overlap(s, t) /\ ~KeysCollide(s, t)
<1> DEFINE t == LastHourOf(s)
<1>1. s.start \in [at : Int, off : Int] /\ s.end \in [at : Int, off : Int]
      /\ s.end.off = s.start.off
  BY DEF IsSlot, SameOffset
<1>2. PICK n, d, m, h, nn, dd, mm, hh \in Int : SlotReads(s, n, d, m, h, nn, dd, mm, hh)
  BY ValidSlotReads
<1>3. /\ n = 1440 * d + m /\ n < nn /\ 0 <= m /\ m < 1440
      /\ nn = 1440 * d + mm /\ 0 <= mm /\ mm < 1440
      /\ 60 * h <= m /\ m < 60 * h + 60 /\ 60 * hh <= mm /\ mm < 60 * hh + 60
      /\ dd = d /\ hh # 0
  BY <1>2 DEF SlotReads, Reads
<1>4. mm % 60 = mm - 60 * hh /\ mm # 60 * hh
  <2>1. mm % 60 = mm - 60 * hh
    BY <1>3
  <2>2. mm % 60 # 0
    BY <1>2 DEF SlotReads, Reads
  <2> QED
    BY <2>1, <2>2
<1>5. PICK from \in Int : /\ from = s.end.at - (mm - 60 * hh)
                          /\ from + s.start.off = 1440 * d + 60 * hh
  <2>1. s.end.at + s.end.off = nn
    BY <1>2 DEF SlotReads, Reads, Local
  <2> QED
    BY <1>1, <1>3, <2>1
<1>6. /\ t.drone = s.drone
      /\ t.start = [at |-> from, off |-> s.start.off]
      /\ t.end = [at |-> from + 60, off |-> s.start.off]
  BY <1>2, <1>4, <1>5 DEF LastHourOf, SlotReads, Reads
<1>7. IsSlot(t) /\ SameOffset(s, t)
  BY <1>1, <1>5, <1>6 DEF IsSlot, SameOffset
<1>8. Local(t.start) = 1440 * d + 60 * hh /\ Local(t.end) = 1440 * d + 60 * hh + 60
  BY <1>1, <1>5, <1>6 DEF Local
<1>9. 60 * MinHour <= m /\ mm <= 60 * MaxHour /\ MinHour \in 0 .. 23 /\ MaxHour \in 0 .. 23
  BY <1>2, HoursAssumption DEF OperatingHours, SlotReads, Reads
<1>10. MinHour <= hh /\ hh + 1 <= MaxHour /\ 1 <= hh /\ hh <= 22
  BY <1>3, <1>4, <1>9
<1>11. /\ Day(t.start) = d /\ TimeOfDay(t.start) = 60 * hh /\ Hour(t.start) = hh
       /\ Day(t.end) = d /\ TimeOfDay(t.end) = 60 * hh + 60 /\ Hour(t.end) = hh + 1
  <2>1. t.start \in [at : Int, off : Int] /\ t.end \in [at : Int, off : Int]
    BY <1>7 DEF IsSlot
  <2>2. PICK n1, d1, m1, h1 \in Int : Reads(t.start, n1, d1, m1, h1)
    BY <2>1, ClockReads
  <2>3. PICK n2, d2, m2, h2 \in Int : Reads(t.end, n2, d2, m2, h2)
    BY <2>1, ClockReads
  <2>4. d1 = d /\ m1 = 60 * hh /\ h1 = hh
    <3>1. n1 = 1440 * d + 60 * hh /\ n1 = 1440 * d1 + m1
      BY <1>8, <2>2 DEF Reads
    <3>2. d1 = d /\ m1 = 60 * hh
      BY <1>10, <2>2, <3>1 DEF Reads
    <3> QED
      BY <2>2, <3>2 DEF Reads
  <2>5. d2 = d /\ m2 = 60 * hh + 60 /\ h2 = hh + 1
    <3>1. n2 = 1440 * d + 60 * hh + 60 /\ n2 = 1440 * d2 + m2
      BY <1>8, <2>3 DEF Reads
    <3>2. d2 = d /\ m2 = 60 * hh + 60
      BY <1>10, <2>3, <3>1 DEF Reads
    <3> QED
      BY <2>3, <3>2 DEF Reads
  <2> QED
    BY <2>2, <2>3, <2>4, <2>5 DEF Reads
<1>12. OperatingHours(t) /\ MinimumDuration(t)
  BY <1>5, <1>6, <1>9, <1>10, <1>11, HoursAssumption DEF OperatingHours, MinimumDuration
<1>13. OnTheHour(t)
  BY <1>8, <1>10, <1>11 DEF OnTheHour
<1>14. Overlap(s, t)
  <2>1. Local(s.start) < Local(t.end) /\ Local(t.start) < Local(s.end)
    BY <1>2, <1>3, <1>4, <1>8 DEF SlotReads, Reads
  <2> QED
    BY <1>6, <1>7, <2>1, OneClock DEF Overlap
<1>15. LockKeys(s) \cap LockKeys(t) = {}
  <2>1. LockHours(s) = h .. (hh - 1) /\ LockHours(t) = hh .. hh
    BY <1>2, <1>10, <1>11 DEF LockHours, EndHour, SlotReads, Reads
  <2> QED
    BY <2>1 DEF LockKeys, Key
<1> QED
  BY <1>7, <1>12, <1>13, <1>14, <1>15 DEF KeysCollide

\* A slot that ends before another begins shares no key with it, unless it ends in the
\* first hour of its day.
LEMMA EarlierSlotIsApart ==
  ASSUME NEW s, NEW t, IsSlot(s), IsSlot(t), OperatingHours(s), OperatingHours(t),
         SameOffset(s, t), ~LocksWholeDay(s), ~(s.end.at > t.start.at)
  PROVE  LockKeys(s) \cap LockKeys(t) = {}
<1> SUFFICES ASSUME NEW x \in LockHours(s), NEW y \in LockHours(t), Key(s, x) = Key(t, y)
             PROVE  FALSE
  BY DEF LockKeys
<1>1. SameOffset(s, s) /\ SameOffset(t, t)
  BY DEF SameOffset
<1>2. PICK n, d, m, h, nn, dd, mm, hh \in Int : SlotReads(s, n, d, m, h, nn, dd, mm, hh)
  BY <1>1, ValidSlotReads
<1>3. PICK i, e, k, g, ii, ee, kk, gg \in Int : SlotReads(t, i, e, k, g, ii, ee, kk, gg)
  BY <1>1, ValidSlotReads
<1>4. d = e
  <2>1. Day(s.start) = Day(t.start)
    BY DEF Key
  <2>2. Day(s.start) = d /\ Day(t.start) = e
    BY <1>2, <1>3 DEF SlotReads, Reads
  <2> QED
    BY <2>1, <2>2, Zenon
<1>5. nn <= i
  <2>1. ~(Local(t.start) < Local(s.end))
    BY OneClock
  <2> QED
    BY <2>1, <1>2, <1>3 DEF SlotReads, Reads
<1>6. /\ n = 1440 * d + m /\ n < nn /\ 0 <= m
      /\ nn = 1440 * dd + mm /\ 0 <= mm /\ mm < 1440
      /\ 60 * hh <= mm /\ mm < 60 * hh + 60
  BY <1>2 DEF SlotReads, Reads
<1>7. i = 1440 * e + k /\ k < 1440 /\ 60 * g <= k /\ k < 60 * g + 60
  BY <1>3 DEF SlotReads, Reads
<1>8. dd = d
  <2>1. dd <= d
    <3>1. 1440 * dd <= nn /\ nn < 1440 * d + 1440
      BY <1>4, <1>5, <1>6, <1>7
    <3> QED
      BY <3>1
  <2>2. d <= dd
    <3>1. 1440 * d < 1440 * dd + 1440
      BY <1>6
    <3> QED
      BY <3>1
  <2> QED
    BY <2>1, <2>2
<1>9. 1 <= hh /\ hh <= g
  <2>1. mm <= k
    BY <1>4, <1>5, <1>6, <1>7, <1>8
  <2>2. hh # 0
    BY <1>2, <1>8 DEF LocksWholeDay, SlotReads, Reads
  <2> QED
    BY <2>1, <2>2, <1>6, <1>7
<1>10. LockHours(s) = h .. (hh - 1)
  BY <1>2, <1>9 DEF LockHours, EndHour, SlotReads, Reads
<1>11. x = y
  BY DEF Key
<1>12. y \in Int /\ g <= y
  <2>1. PICK z : LockHours(t) = g .. z
    BY <1>3 DEF LockHours, SlotReads, Reads
  <2> QED
    BY <2>1
<1> QED
  BY <1>9, <1>10, <1>11, <1>12

\* Requests on one clock are never refused a lock by a booking they do not
\* overlap, also when slots are unaligned or run over midnight, but for those that end
\* in the first hour of the day they start on (BOOKING_MIN_HOUR = 0).
THEOREM ApartSlotsShareNoKey ==
  ASSUME NEW s, NEW t, IsSlot(s), IsSlot(t), OperatingHours(s), OperatingHours(t),
         SameOffset(s, t), ~LocksWholeDay(s), ~LocksWholeDay(t)
  PROVE  NoFalseConflict(s, t)
<1> SUFFICES ASSUME ~Overlap(s, t)
             PROVE  LockKeys(s) \cap LockKeys(t) = {}
  BY DEF NoFalseConflict
<1>1. CASE s.drone # t.drone
  BY <1>1 DEF LockKeys, Key
<1>2. CASE ~(s.end.at > t.start.at)
  BY <1>2, EarlierSlotIsApart
<1>3. CASE ~(s.start.at < t.end.at)
  <2>1. SameOffset(t, s)
    BY DEF SameOffset
  <2>2. ~(t.end.at > s.start.at)
    BY <1>3 DEF IsSlot
  <2>3. LockKeys(t) \cap LockKeys(s) = {}
    BY <2>1, <2>2, EarlierSlotIsApart
  <2> QED
    BY <2>3
<1> QED
  BY <1>1, <1>2, <1>3 DEF Overlap
==============================================================================
