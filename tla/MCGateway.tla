------------------------------- MODULE MCGateway -------------------------------
(***************************************************************************)
(* An instance of Gateway small enough for TLC.                            *)
(***************************************************************************)
EXTENDS Gateway

CONSTANTS e1, e2

\* Another's email, or nothing at all.
SomePatches == {[name |-> None, email |-> e2], [name |-> None, email |-> None]}

Send(get, prefix, suffix, token) ==
    [prefix |-> prefix, suffix |-> suffix, get |-> get, token |-> token]

\* Requests to every service, with and without a token, and the public ones
\* beside those that differ from them in one thing.
SomeRequests ==
    {Send(FALSE, "auth", "", "none"), Send(TRUE, "users", "", "uuid"),
     Send(TRUE, "venues", "bookings", "none"), Send(FALSE, "venues", "", "issued"),
     Send(TRUE, "venues", "availability", "none"), Send(TRUE, "bookings", "summary", "uuid"),
     Send(FALSE, "bookings", "payment", "uuid")}
================================================================================
