---------------------------- MODULE MCAvailability ----------------------------
(***************************************************************************)
(* Instances of Availability small enough for TLC.                         *)
(***************************************************************************)
EXTENDS Availability, TLC

Symmetry == Permutations(BookingIds)

Stretch(s, e, status) == [start |-> s, end |-> e, status |-> status]

\* Days of eight ticks, asked about the second: bookings that touch, overlap,
\* contain each other, run over the opening or the closing time, lie outside
\* the hours, are of another day, run into it, or are cancelled.
SomeBookings ==
    {Stretch(8, 9, "pending"), Stretch(8, 11, "confirmed"), Stretch(9, 10, "pending"),
     Stretch(10, 12, "completed"), Stretch(10, 15, "pending"), Stretch(11, 12, "pending"),
     Stretch(12, 13, "pending"), Stretch(13, 15, "confirmed"), Stretch(14, 15, "pending"),
     Stretch(6, 7, "pending"), Stretch(6, 11, "pending"), Stretch(10, 13, "cancelled")}

Hours(on, opens, closes) == [enabled |-> on, opens |-> opens, closes |-> closes]

SomeReplies ==
    {Hours(TRUE, 1, 6), Hours(TRUE, 2, 3), Hours(FALSE, None, None), Hours(TRUE, None, None)}
===============================================================================
