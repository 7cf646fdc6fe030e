-------------------------------- MODULE MCBooking --------------------------------
(***************************************************************************)
(* An instance of Booking small enough for TLC.                            *)
(***************************************************************************)
EXTENDS Booking

CONSTANT v1

\* An hour is two ticks; at rate 1 the booking costs one unit.
SomeRequests == {[venue |-> v1, start |-> 0, end |-> 2, status |-> "pending",
                   startZone |-> 0, endZone |-> 0]}

Schedule(price) == [enabled |-> TRUE, opens |-> 0, closes |-> 3, price |-> price]

SomeReplies == {Schedule(0), Schedule(1)}
================================================================================
