--------------------------- MODULE BookingCalendar ---------------------------
(***************************************************************************)
(* What reservation-service promises its clients: a calendar of bookings   *)
(* in which a booking is made, moved or cancelled in one step, and none is *)
(* made or moved onto time a live booking of the same venue holds.         *)
(***************************************************************************)
EXTENDS Integers

CONSTANTS BookingIds, Slots, Statuses, None

VARIABLE calendar   \* [slot, status] of every booking made, None of the others

Entry == [slot : Slots, status : Statuses]

Booked(id) == calendar[id] # None

Live(id) == Booked(id) /\ calendar[id].status # "cancelled"

Overlap(a, b) == a.venue = b.venue /\ a.start < b.end /\ b.start < a.end

Free(id, s) ==
    \A other \in BookingIds \ {id} :
        Live(other) => ~Overlap(calendar[other].slot, s)

\* An operation turns one booking's entry into e and touches no other.
Becomes(id, e) == e \in Entry /\ calendar' = [calendar EXCEPT ![id] = e]

Book(id, e) == ~Booked(id) /\ Free(id, e.slot)

Move(id, e) ==
    /\ Booked(id) /\ calendar[id].status = "pending"
    /\ e.status = "pending"
    /\ Free(id, e.slot)

Cancel(id, e) ==
    /\ Booked(id) /\ calendar[id].status \notin {"cancelled", "completed"}
    /\ e = [calendar[id] EXCEPT !.status = "cancelled"]

Init == calendar = [id \in BookingIds |-> None]

\* The new entry is read off the next state, so that nothing is enumerated.
Next ==
    \E id \in BookingIds :
        LET e == calendar'[id] IN
        /\ Becomes(id, e)
        /\ Book(id, e) \/ Move(id, e) \/ Cancel(id, e)

Spec == Init /\ [][Next]_calendar
===============================================================================
