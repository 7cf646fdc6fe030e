-------------------------------- MODULE Slots --------------------------------
(***************************************************************************)
(* What reservation-service asks of two stretches of time, of a stretch    *)
(* and a day, and of a stretch and the hours of a venue.  Instants are     *)
(* counted in ticks; a stretch is a record with fields start and end, and  *)
(* where a day or an hour is read off it, with startZone and endZone: the  *)
(* offset from UTC that each end was given in.                             *)
(***************************************************************************)
EXTENDS Integers

CONSTANTS
    HourLength,    \* ticks in an hour
    DayLength,     \* ticks in a day
    None           \* no value: a nil pointer, a row that is not there

ASSUME LengthAssumption == HourLength \in Nat \ {0} /\ DayLength \in Nat \ {0}

\* The day a clock shows at an instant.
DayOf(t, zone) == (t + zone) \div DayLength

\* The instant at which the clock showed the beginning of that day.
Midnight(t, zone) == DayOf(t, zone) * DayLength - zone

\* What the database returns and what is computed from it is in UTC.
InUtc(s) == [start |-> s.start, end |-> s.end, startZone |-> 0, endZone |-> 0]

\* Mutation of SameDay: the last instant of a booking is not its own.
SameDayExclusive(s) == DayOf(s.start, s.startZone) = DayOf(s.end - 1, s.endZone)

\* Each end's day is read on that end's own clock.
SameDay(s) == DayOf(s.start, s.startZone) = DayOf(s.end, s.endZone)

\* The opening time counts from the start's midnight, the closing time from
\* the end's.
ScheduleMatch(reply, s) ==
    /\ reply.enabled
    /\ reply.opens # None /\ reply.closes # None
    /\ s.start >= Midnight(s.start, s.startZone) + reply.opens
    /\ s.end <= Midnight(s.end, s.endZone) + reply.closes

\* Mutation of Clash: the third disjunct of the WHERE clause is missing.
ClashNotInside(r, s) ==
    \/ r.start < s.end /\ r.end > s.end
    \/ r.start < s.start /\ r.end > s.start

\* Mutation of Clash: bookings that only touch clash.
ClashTouching(r, s) == r.start <= s.end /\ r.end >= s.start

\* The WHERE clause: the row covers the new end, covers the new start, or
\* lies within the new slot.
Clash(r, s) ==
    \/ r.start < s.end /\ r.end > s.end
    \/ r.start < s.start /\ r.end > s.start
    \/ r.start >= s.start /\ r.end <= s.end

\* The reference: two stretches have a part in common.
Overlap(a, b) == a.start < b.end /\ b.start < a.end
===============================================================================
