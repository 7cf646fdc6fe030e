----------------------------- MODULE Availability -----------------------------
(***************************************************************************)
(* GetVenueAvailability of reservation-service: from the hours of a venue  *)
(* on a day and the bookings of the venue, the free stretches of that day, *)
(* by a sweep over the bookings in the order of their starts.  The         *)
(* bookings are read once; the answer is about the table as it was then.   *)
(***************************************************************************)
EXTENDS Integers, Sequences, Slots

CONSTANTS
    BookingIds,
    Bookings,      \* the bookings of the venue the table may hold
    VenueReplies,  \* the schedules of the day the venue service may answer
    MaxTime,
    Days           \* the days a client asks about

Times == 0 .. MaxTime

Booking == [start : Times, end : Times, status : STRING]

Reply == [enabled : BOOLEAN, opens : 0 .. DayLength \union {None},
          closes : 0 .. DayLength \union {None}]

ASSUME InputAssumption ==
    /\ MaxTime \in Nat /\ Days \subseteq Nat
    /\ Bookings \subseteq Booking /\ None \notin Bookings
    /\ \A b \in Bookings : b.start < b.end
    /\ VenueReplies \subseteq Reply
    /\ \A r \in VenueReplies :
           r.opens # None /\ r.closes # None => r.opens < r.closes
    /\ \A d \in Days : (d + 1) * DayLength <= MaxTime

VARIABLES
    date,    \* the day asked about
    reply,   \* its schedule
    rows,    \* the bookings of the venue, as they were read
    todo,    \* those the sweep has yet to see (intervals)
    prev,    \* the sweep has found everything free before this instant
    slots,   \* what it has found
    pc

vars == <<date, reply, rows, todo, prev, slots, pc>>

Opens == date * DayLength + reply.opens

Closes == date * DayLength + reply.closes

(***************************************************************************)
(* The bookings that count                                                 *)
(***************************************************************************)
\* A booking counts on the day it starts, in UTC.
OnDate(b) == DayOf(b.start, 0) = date

\* Mutation of InHours: a booking that runs when the venue opens is passed over.
InHoursFromOpening(b) == ~(b.start < Opens) /\ ~(b.start > Closes)

InHours(b) == ~(b.end < Opens) /\ ~(b.start > Closes)

Counts(b) == b # None /\ b.status # "cancelled" /\ OnDate(b) /\ InHours(b)

Earliest(x, y) == IF y < x THEN y ELSE x

\* Mutation of Clipped: only the start is cut off.
ClippedStart(b) ==
    [start |-> IF b.start < Opens THEN Opens ELSE b.start, end |-> b.end]

\* What is left of a booking within the hours of the venue.
Clipped(b) ==
    [start |-> IF b.start < Opens THEN Opens ELSE b.start,
     end |-> Earliest(b.end, Closes)]

(***************************************************************************)
(* The steps                                                               *)
(***************************************************************************)
\* A day the venue is closed has no slots; one without hours is an error.
GetVenue ==
    /\ pc = "venue"
    /\ \E r \in VenueReplies, d \in Days :
           /\ date' = d /\ reply' = r
           /\ pc' = IF ~r.enabled THEN "done"
                    ELSE IF r.opens = None \/ r.closes = None THEN "error"
                    ELSE "bookings"
    /\ UNCHANGED <<rows, todo, prev, slots>>

GetVenueBookings ==
    /\ pc = "bookings"
    /\ \E table \in [BookingIds -> Bookings \union {None}] :
           /\ rows' = table
           /\ todo' = {id \in BookingIds : Counts(table[id])}
    /\ prev' = Opens
    /\ pc' = "sweep"
    /\ UNCHANGED <<date, reply, slots>>

CallFails ==
    /\ pc \in {"venue", "bookings"}
    /\ pc' = "error"
    /\ UNCHANGED <<date, reply, rows, todo, prev, slots>>

Gap(from, to) == [start |-> from, end |-> to]

\* The slots found so far, and the stretch up to an instant when it is one.
\* Those shorter than an hour are dropped at the end; it makes no difference
\* to drop them here.
Found(to) ==
    IF to > prev /\ to - prev >= HourLength THEN Append(slots, Gap(prev, to)) ELSE slots

\* Mutation of Reached: the sweep goes back to the end of the last booking.
ReachedLast(end) == end

Reached(end) == IF end > prev THEN end ELSE prev

\* sort.Slice is not stable: of two that start together either comes first.
Sweep(id) ==
    LET b == Clipped(rows[id]) IN
    /\ pc = "sweep" /\ id \in todo
    /\ \A other \in todo : b.start <= Clipped(rows[other]).start
    /\ slots' = Found(b.start)
    /\ prev' = Reached(b.end)
    /\ todo' = todo \ {id}
    /\ UNCHANGED <<date, reply, rows, pc>>

\* What is free up to the closing time comes last.
Finish ==
    /\ pc = "sweep" /\ todo = {}
    /\ slots' = Found(Closes)
    /\ pc' = "done"
    /\ UNCHANGED <<date, reply, rows, todo, prev>>

NoBookings == [id \in BookingIds |-> None]

Respond ==
    /\ pc \in {"done", "error"}
    /\ pc' = "venue"
    /\ date' = None /\ reply' = None /\ prev' = None
    /\ rows' = NoBookings /\ todo' = {} /\ slots' = << >>

Init ==
    /\ date = None /\ reply = None /\ prev = None
    /\ rows = NoBookings /\ todo = {} /\ slots = << >>
    /\ pc = "venue"

Next ==
    \/ GetVenue \/ GetVenueBookings \/ CallFails
    \/ \E id \in BookingIds : Sweep(id)
    \/ Finish \/ Respond

Spec == Init /\ [][Next]_vars

(***************************************************************************)
(* Properties                                                              *)
(***************************************************************************)
\* The sweep stays within the hours of the venue, and what it has found lies
\* in order before the instant it has reached, a full hour each.
SweepInHours ==
    pc = "sweep" =>
        /\ prev \in Opens .. Closes
        /\ \A i \in DOMAIN slots :
               /\ Opens <= slots[i].start /\ slots[i].end <= prev
               /\ slots[i].end - slots[i].start >= HourLength
               /\ \A j \in DOMAIN slots : i < j => slots[i].end < slots[j].start

Range(s) == {s[i] : i \in DOMAIN s}

\* The stretches of the day's hours, of an hour or more, that no live booking
\* starting on that day overlaps.
Free ==
    {s \in [start : Opens .. Closes, end : Opens .. Closes] :
        /\ s.end - s.start >= HourLength
        /\ \A id \in BookingIds :
               rows[id] # None /\ rows[id].status # "cancelled" /\ OnDate(rows[id])
               => ~Overlap(rows[id], s)}

Within(s, t) == t.start <= s.start /\ s.end <= t.end

\* The answer is exactly the longest free stretches: none is missed, cut short
\* or divided, however the bookings overlap.
SlotsAreTheGaps ==
    pc = "done" /\ reply.enabled =>
        Range(slots) = {s \in Free : \A t \in Free : Within(s, t) => s = t}

\* A slot that is advertised and asked for in UTC is within the schedule, and
\* meets in the conflict query no live booking that begins and ends on one
\* day in UTC.
AdvertisedIsFree ==
    pc = "done" =>
        \A s \in Range(slots) :
            /\ SameDay(InUtc(s)) => ScheduleMatch(reply, InUtc(s))
            /\ \A id \in BookingIds :
                   /\ rows[id] # None /\ rows[id].status # "cancelled"
                   /\ SameDay(InUtc(rows[id]))
                   => ~Clash(rows[id], s)
===============================================================================
