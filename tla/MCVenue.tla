-------------------------------- MODULE MCVenue --------------------------------
(***************************************************************************)
(* Instances of Venue small enough for TLC.                                *)
(***************************************************************************)
EXTENDS Venue, TLC

CONSTANTS mon, tue, p1, p2

Symmetry == Permutations(Handlers) \union Permutations(VenueIds)

Hour(on, opens, closes) == [enabled |-> on, opens |-> opens, closes |-> closes]

Days(m, t) == (mon :> m) @@ (tue :> t)

\* Weeks in order, with a day off, with the hours of a day off, in the wrong
\* order, and without hours.
Open == Days(Hour(TRUE, 0, 2), Hour(TRUE, 1, 2))
HalfOpen == Days(Hour(TRUE, 0, 1), Hour(FALSE, None, None))
Leftover == Days(Hour(FALSE, 2, 0), Hour(TRUE, 0, 2))
Reversed == Days(Hour(TRUE, 0, 2), Hour(TRUE, 2, 1))
Hourless == Days(Hour(TRUE, None, 2), Hour(TRUE, 0, 1))

Ask(p, active, price, week) ==
    [profile |-> p, active |-> active, price |-> price, week |-> week]

SomeRequests ==
    {Ask(p1, TRUE, 1, Open), Ask(p2, FALSE, 2, HalfOpen), Ask(p1, TRUE, 2, Reversed)}

SomeSchedules == {HalfOpen, Leftover, Reversed, Hourless}
===============================================================================
