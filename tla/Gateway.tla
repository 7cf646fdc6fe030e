-------------------------------- MODULE Gateway --------------------------------
(***************************************************************************)
(* The gateway in front of the services, with user-service behind it.  A   *)
(* client's request is let through by its path or its token, and then      *)
(* passed on to the service its path names, or, for the summary of a       *)
(* booking, answered from three requests the gateway makes itself.  The    *)
(* ports of the services are published too: a client may pass the gateway  *)
(* by.  A handler h stands for a client, with one request at a time.       *)
(***************************************************************************)
EXTENDS User

CONSTANTS
    Requests,   \* the requests clients send to the gateway
    Venues      \* those the booking of a summary may be at

Prefixes == {"auth", "users", "venue-types", "venues", "bookings", "payments"}

Suffixes == {"", "availability", "bookings", "summary", "payment"}

\* A token that is missing, malformed or expired counts as none.
Request == [prefix : Prefixes, suffix : Suffixes, get : BOOLEAN,
            token : {"none", "issued", "uuid"}]

ASSUME GatewayAssumption ==
    /\ Requests \subseteq Request /\ None \notin Request
    /\ None \notin Venues /\ "error" \notin Venues

VARIABLES
    gate,       \* where each client's request is in the gateway
    request,    \* the request, while it is worked on
    parts,      \* what its summary shows so far
    bookedAt    \* the venue of the booking, at reservation-service

inGateway == <<gate, request, parts, bookedAt>>
gatewayVars == <<users, tokens, pc, uid, mem, gate, request, parts, bookedAt>>

Fetching == {"booking", "venue", "payment"}

GateAnswers == {"unauthorized", "badrequest", "answered", "badgateway", "summary"}

NoParts == [booking |-> None, venue |-> None, payment |-> None]

(***************************************************************************)
(* RegisterRoutes                                                          *)
(***************************************************************************)
\* Mutation of isPublicRequest: the bookings of a venue are public like the
\* rest of it.
isPublicVenues(r) ==
    r.prefix = "auth" \/ (r.get /\ r.prefix \in {"venue-types", "venues"})

isPublicRequest(r) ==
    \/ r.prefix = "auth"
    \/ r.get /\ r.prefix = "venue-types"
    \/ r.get /\ r.prefix = "venues" /\ r.suffix # "bookings"

\* The gateway's claims hold a UUID, those of user-service a number: a token
\* that user-service issued is not decoded.
Decoded(token) == token = "uuid"

Summary(r) == r.get /\ r.prefix = "bookings" /\ r.suffix = "summary"

Upstream(r) ==
    CASE r.prefix \in {"auth", "users"} -> "user"
      [] r.prefix = "venue-types" -> "venue"
      [] r.prefix = "venues" ->
             IF r.suffix \in {"availability", "bookings"} THEN "reservation" ELSE "venue"
      [] r.prefix = "bookings" ->
             IF r.suffix = "payment" THEN "payment" ELSE "reservation"
      [] OTHER -> "payment"

GateStep(h, from, to) == gate[h] = from /\ gate' = [gate EXCEPT ![h] = to]

\* An answer leaves nothing behind but itself.
Answer(h, from, answer) ==
    /\ GateStep(h, from, answer)
    /\ request' = [request EXCEPT ![h] = None]

AuthUnless(h) ==
    \E r \in Requests :
        /\ r.token = "issued" => tokens # {}
        /\ pc[h] = "idle"
        /\ IF isPublicRequest(r) \/ Decoded(r.token)
           THEN /\ \E to \in IF Summary(r) THEN {"booking", "badrequest"} ELSE {"proxied"} :
                       GateStep(h, "idle", to)
                /\ request' = [request EXCEPT ![h] = r]
           ELSE Answer(h, "idle", "unauthorized")
        /\ UNCHANGED <<vars, parts, bookedAt>>

(***************************************************************************)
(* The proxy                                                               *)
(***************************************************************************)
To(h, service) == gate[h] = "proxied" /\ Upstream(request[h]) = service

\* What a service behind the gateway does with it is its own model's; it may
\* also never answer, which the proxy waits for.
ServiceAnswers(h) ==
    /\ \E s \in {"venue", "reservation", "payment"} : To(h, s)
    /\ Answer(h, "proxied", "answered")
    /\ UNCHANGED <<vars, parts, bookedAt>>

\* The connection is refused, or breaks before the service has begun.
UpstreamUnavailable(h) ==
    /\ pc[h] = "idle"
    /\ Answer(h, "proxied", "badgateway")
    /\ UNCHANGED <<vars, parts, bookedAt>>

(***************************************************************************)
(* user-service                                                            *)
(***************************************************************************)
\* Registering and logging in go through the gateway; what needs the claims of
\* an issued token is asked of the published port.
UserBegins(h) ==
    /\ \/ gate[h] = "idle" /\ (Auth(h) \/ Me(h))
       \/ To(h, "user") /\ request[h].prefix = "auth" /\ Auth(h)
       \/ /\ To(h, "user") /\ request[h].prefix = "users"
          /\ Step(h, "idle", "unauthorized")
          /\ UNCHANGED <<accounts, uid, mem>>
    /\ UNCHANGED inGateway

UserProceeds(h) == (Sign(h) \/ Save(h)) /\ UNCHANGED inGateway

UserAnswers(h) ==
    /\ Respond(h)
    /\ IF gate[h] = "proxied" THEN Answer(h, "proxied", "answered")
       ELSE UNCHANGED <<gate, request>>
    /\ UNCHANGED <<parts, bookedAt>>

\* Whoever was waiting for user-service is told that it is unavailable.
UserRestarts ==
    /\ Restart
    /\ gate' = [h \in Handlers |-> IF To(h, "user") THEN "badgateway" ELSE gate[h]]
    /\ request' = [h \in Handlers |-> IF To(h, "user") THEN None ELSE request[h]]
    /\ UNCHANGED <<parts, bookedAt>>

(***************************************************************************)
(* GetBookingSummary                                                       *)
(***************************************************************************)
\* A status that is not OK is passed on with its body.
FetchBooking(h) ==
    /\ \/ /\ GateStep(h, "booking", "venue")
          /\ parts' = [parts EXCEPT ![h].booking = bookedAt]
          /\ UNCHANGED request
       \/ Answer(h, "booking", "answered") /\ UNCHANGED parts
    /\ UNCHANGED <<vars, bookedAt>>

\* Mutation of FetchVenue: the booking is asked for its venue again.
FetchVenueAgain(h) ==
    /\ GateStep(h, "venue", "payment")
    /\ \E body \in {bookedAt, "error"} : parts' = [parts EXCEPT ![h].venue = body]
    /\ UNCHANGED <<vars, request, bookedAt>>

\* The venue asked for is the one of the booking that will be shown.
FetchVenue(h) ==
    /\ GateStep(h, "venue", "payment")
    /\ \E body \in {parts[h].booking, "error"} :
           parts' = [parts EXCEPT ![h].venue = body]
    /\ UNCHANGED <<vars, request, bookedAt>>

FetchPayment(h) ==
    /\ Answer(h, "payment", "summary")
    /\ \E body \in {"body", "error"} : parts' = [parts EXCEPT ![h].payment = body]
    /\ UNCHANGED <<vars, bookedAt>>

\* Mutation of FetchFails: a fetch that failed is tried again.
FetchFailsRetried(h) ==
    /\ gate[h] \in Fetching
    /\ UNCHANGED gatewayVars

\* A fetch fails at once, or after the eight seconds of the client's timeout.
FetchFails(h) ==
    /\ \/ Answer(h, "booking", "badgateway") /\ UNCHANGED parts
       \/ /\ GateStep(h, "venue", "payment")
          /\ parts' = [parts EXCEPT ![h].venue = "error"]
          /\ UNCHANGED request
       \/ /\ Answer(h, "payment", "summary")
          /\ parts' = [parts EXCEPT ![h].payment = "error"]
    /\ UNCHANGED <<vars, bookedAt>>

\* An update at reservation-service moves the booking to another venue.
MoveBooking ==
    /\ \E v \in Venues \ {bookedAt} : bookedAt' = v
    /\ UNCHANGED <<vars, gate, request, parts>>

(***************************************************************************)
(* Everything else                                                         *)
(***************************************************************************)
Forget(h) ==
    /\ gate[h] \in GateAnswers
    /\ gate' = [gate EXCEPT ![h] = "idle"]
    /\ request' = [request EXCEPT ![h] = None]
    /\ parts' = [parts EXCEPT ![h] = NoParts]
    /\ UNCHANGED <<vars, bookedAt>>

\* The gateway dies and keeps nothing; a handler of user-service goes on.
GatewayRestarts ==
    /\ gate' = [h \in Handlers |-> "idle"]
    /\ request' = Nobody
    /\ parts' = [h \in Handlers |-> NoParts]
    /\ UNCHANGED <<vars, bookedAt>>

GatewayInit ==
    /\ Init
    /\ gate = [h \in Handlers |-> "idle"]
    /\ request = Nobody
    /\ parts = [h \in Handlers |-> NoParts]
    /\ bookedAt \in Venues

Fetch(h) == FetchBooking(h) \/ FetchVenue(h) \/ FetchPayment(h) \/ FetchFails(h)

GatewayNext ==
    \/ \E h \in Handlers :
           \/ AuthUnless(h) \/ ServiceAnswers(h) \/ UpstreamUnavailable(h)
           \/ UserBegins(h) \/ UserProceeds(h) \/ UserAnswers(h)
           \/ Fetch(h) \/ Forget(h)
    \/ UserRestarts \/ GatewayRestarts \/ MoveBooking

GatewaySpec == GatewayInit /\ [][GatewayNext]_gatewayVars

\* Time passes: a fetch that is not answered comes to its timeout.  No service
\* is taken to answer.
FairGatewaySpec == GatewaySpec /\ \A h \in Handlers : WF_gatewayVars(FetchFails(h))

(***************************************************************************)
(* Properties                                                              *)
(***************************************************************************)
\* Every variable of the gateway holds a value of its type, and what is being
\* worked on has its request.
GatewayTypeOK ==
    /\ TypeOK
    /\ gate \in [Handlers -> {"idle", "proxied"} \union Fetching \union GateAnswers]
    /\ request \in [Handlers -> Requests \union {None}]
    /\ \A h \in Handlers : gate[h] \in {"proxied"} \union Fetching => request[h] # None
    /\ parts \in [Handlers -> [booking : Venues \union {None},
                               venue : Venues \union {"error", None},
                               payment : {"body", "error", None}]]
    /\ bookedAt \in Venues

\* Nobody without a token the gateway has decoded gets past it to payments or
\* to bookings, but to register or log in, to read about venues, and to read
\* when one is free: the rules by which a path is public (routes.go:92-116) and
\* those by which it is passed on (routes.go:42-87) agree.
UnvouchedReadVenues ==
    \A h \in Handlers :
        gate[h] \in {"proxied"} \union Fetching /\ ~Decoded(request[h].token) =>
            \/ request[h].prefix = "auth"
            \/ request[h].get /\ Upstream(request[h]) = "venue"
            \/ request[h].get /\ request[h].suffix = "availability"

\* A summary shows for each of its parts the answer or an error, and its venue
\* is that of the booking it shows, wherever the booking was moved meanwhile.
SummaryWhole ==
    \A h \in Handlers :
        gate[h] = "summary" =>
            /\ parts[h].booking \in Venues
            /\ parts[h].venue \in {parts[h].booking, "error"}
            /\ parts[h].payment \in {"body", "error"}

\* A summary comes to an end although no service ever answers; once the booking
\* was read it is shown, whatever becomes of its venue and its payment, unless
\* the gateway itself dies.
SummaryAnswered ==
    \A h \in Handlers :
        /\ gate[h] = "booking" ~> gate[h] \notin Fetching
        /\ gate[h] \in {"venue", "payment"} ~> gate[h] \in {"summary", "idle"}
================================================================================
