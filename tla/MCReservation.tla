---------------------------- MODULE MCReservation ----------------------------
(***************************************************************************)
(* Instances of Reservation small enough for TLC.                          *)
(***************************************************************************)
EXTENDS Reservation, TLC

CONSTANTS v1, v2

Symmetry == Permutations(BookingIds)

ConcurrentSymmetry == Permutations(BookingIds) \union Permutations(Handlers)

\* A day of four ticks, an hour of two: bookings that touch, overlap, contain
\* each other, are too short, run into the next day, or are empty.  The clock
\* of some clients is half a day behind UTC.
AskIn(v, s, e, status, from, to) ==
    [venue |-> v, start |-> s, end |-> e, status |-> status,
     startZone |-> from, endZone |-> to]

Ask(v, s, e, status) == AskIn(v, s, e, status, 0, 0)

SerialRequests ==
    {Ask(v1, 0, 2, "pending"), Ask(v1, 1, 3, "pending"), Ask(v1, 0, 3, "confirmed"),
     Ask(v1, 2, 3, "pending"), Ask(v1, 2, 4, "pending"), Ask(v1, 2, 2, "pending"),
     AskIn(v1, 0, 5, "pending", 0, -2), AskIn(v1, 0, 6, "pending", 0, -2)}

\* Zones holds a negative number, which a cfg cannot write.
SerialZones == {0, -2}

ChangeIn(v, s, e, p, from, to) ==
    [venue |-> v, start |-> s, end |-> e, price |-> p,
     startZone |-> from, endZone |-> to]

Change(v, s, e, p) == ChangeIn(v, s, e, p, 0, 0)

SerialPatches ==
    {Change(None, 1, 3, None), Change(v2, None, None, None),
     Change(None, None, 4, 3), Change(None, None, 1, 0),
     ChangeIn(None, None, 5, None, 0, -2)}

Schedule(on, opens, closes, p) ==
    [enabled |-> on, opens |-> opens, closes |-> closes, price |-> p]

SerialReplies == {Schedule(TRUE, 0, 3, 1), Schedule(FALSE, None, None, 0)}

ConcurrentRequests ==
    {Ask(v1, 0, 2, "pending"), Ask(v1, 1, 3, "confirmed"), Ask(v1, 0, 3, "completed")}

ConcurrentPatches == {Change(None, 1, None, None), Change(None, None, 1, 3)}

ConcurrentReplies == {Schedule(TRUE, 0, 3, 1)}
===============================================================================
