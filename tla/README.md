# Booking-venue: a TLA+ verification project

Models, model checks and proofs for the venue-booking back end in `src/`: five Go services
(`gateway`, `user-service`, `venue-service`, `reservation-service`, `payment-service`) over
Postgres, talking HTTP to each other and Kafka from reservations to payments.

Every definition is written from the source; `PROJECT.json` (`map`) gives the lines it stands for.

## 1. Inventory

| Component | State | Operations | Talks to | Hard behaviour |
|---|---|---|---|---|
| **booking service** (`reservation-service/internal/service/booking-service.go`, `repository`, `transport`) | table `reservation_details` | create, cancel, update (read-only: get, list) | venue-service over HTTP, twice per creation; Kafka producer | a request is four to eight calls with nothing locked between them; Save writes whole rows read earlier |
| **availability** (`GetVenueAvailability`) | none of its own | one query | venue-service, the bookings table | a sweep over overlapping intervals at the boundaries of hours and days |
| **Kafka producer** (`reservation-service/internal/kafka`) | topics `booking.created`, `booking.cancelled` | publish | Kafka | retries, lost acknowledgements, no outbox |
| **payments** (`payment-service/internal/services/payment-service.go`) | table `payments` | create (HTTP), create pending (event) | | look-then-insert without a unique key |
| **refunds** (`refund-service.go`) | tables `refunds`, `payments` | create refund | | a transaction with `SELECT ... FOR UPDATE` |
| **event consumers** (`payment-service/internal/transport/kafka/consumer.go`) | consumer-group offsets | two endless loops | Kafka, payments, refunds | offset committed before the message is handled; two topics without a common order |
| **venue-service** | table `venues` (soft delete) | create, update, update schedule, delete | asked by reservation-service | read-then-write of all columns; GORM defaults replace `false` |
| **user-service** | table `users`; the tokens it has handed out | register, log in, update me, become owner | | read-then-write of a whole row; a token that outlives the role it names |
| **gateway** | none between requests | letting a request through or not, proxying it, the summary of a booking | everybody, over HTTP | two sets of rules over paths that must agree; three requests whose answers belong together; services that do not answer |
| configuration, seeding, deployment | | start-up only | | which tables are migrated, whether brokers are set |

What makes each correct:

* *booking service*: live bookings of a venue do not overlap; a booking starts before it ends,
  and on the clocks its ends are given in it lies on one day, inside hours of its venue; a refusal for a conflict has a conflict as its
  cause; a final booking stays final; an event speaks of what was committed; a client told
  "created" has a row and an event.
* *availability*: what is advertised is exactly what is free of live bookings and, asked for in UTC,
  passes the schedule check; that the booking is not refused for a cancelled one is not so.
* *payments, refunds, consumers*: no payment gives back more than it took; the refunds table and the
  payments table agree; a booking is billed once from its events; consumers outlive errors; a paid
  booking that is cancelled is paid back.
* *venue-service*: a change touches what it says it changes; a deleted venue stays deleted and only
  one deletion reports success; what it tells of a schedule is consistent.
* *user-service*: an email is one user's; a token is a stored user's; a role that was granted is
  lost to nothing but a change of profile that read the user before, and left out of no token but
  one whose login or registration did.
* *gateway*: what it lets through without a token leads to what is meant to be public; a summary
  shows one booking with its own venue, and always comes.
* *the two services together*: a bill is of a booking that exists, at the amount announced; what is
  paid back was cancelled; an announced booking is billed and a cancelled one paid back.

The hazards behind these, line by line and with the properties that cover each, are the list
`hazards` of `PROJECT.json`.

## 2. Modules and how they correspond to the code

```
Slots ───────┬── Reservation ── MCReservation          BookingCalendar (abstract)
             │        └── ReservationProofs ── ReservationSerialProofs
             └── Availability ── MCAvailability
                      └── AvailabilityProofs
Payment ── MCPayment                                   RefundLedger (abstract)
   └── PaymentProofs
Reservation + Payment ── Booking ── MCBooking
                            └── BookingProofs (with ReservationSerialProofs and PaymentProofs)
User ── Gateway ── MCGateway
  │         └── GatewayProofs
  └── UserProofs ──┘
Venue ── MCVenue
   └── VenueProofs
```

**Slots** holds what reservation-service asks of stretches of time: `SameDay`, `ScheduleMatch`
(checkScheduleMatch) and `Clash`, the three-way WHERE clause of the conflict query. `Overlap` is the
reference. Instants are ticks, `DayLength` of them to a day and `HourLength` to an hour. A day and
its hours are read on a clock: a Go `time.Time` carries the offset its JSON named, so each end of a
slot has one (`startZone`, `endZone`), `DayOf` is the day that clock shows and `Midnight` the instant
that day began there. `Clash` compares instants, on which offsets have no bearing. What is read back
from the database, or computed by the availability, is in UTC (`InUtc`): the DSN names no time zone
and the containers set none.

**Reservation** models each handler as a process. `pc[h]` is the call it makes next, `mem[h]` the
`ReservationDetails` it holds, `goal[h]` the slot it validates with the offsets of its ends, `bid[h]`
the booking it works on, `patch[h]` the update it was asked for. The table keeps instants only, so an
update mixes the offset of an end it names with UTC for one it does not (`MergedSlot`). An action is the code from one call that leaves the
process to the next:

| Operation | Actions in order |
|---|---|
| CreateReservation | `CreateReservation` (local checks), `CreateSchedule`, `CreateCheck`, `CreatePrice` (second venue call, the check for an hour), `CreateTxCheck`, `InsertStored` or `InsertRolledBack`, `PublishCreated` |
| ReservationCancel | `ReservationCancel` (read and checks), `CancelSave`, `PublishCancelled` |
| ReservationUpdate | `ReservationUpdate` (first read), `UpdateReread` (second read), `UpdateSchedule`, `UpdateCheck`, `UpdateSave` or `UpdateRefused` |

`CallFails` is an error of any call, `Refuse` a request turned away by the first checks, `Restart`
the death of the process. A commit may succeed and be reported as failed (`WriteOutcomes`); a
publication may lose, keep or double a message and may fail although the message arrived
(`PublishOutcomes`). Postgres at READ COMMITTED: every statement is one step and sees all that was
committed. The venue service may answer with any schedule of `VenueReplies` at each call.
`TableExists` says whether the relation `reservations`, which the conflict check counts in, exists;
see the findings. Where it is TRUE that relation is taken to show the bookings, as the check
intends.

**BookingCalendar** is what the handlers together promise: book, move and cancel in one step,
never onto time a live booking holds. `CalendarRefined` is the refinement, the calendar being the
table seen as slots and statuses.

**Availability** is one request: `GetVenue`, `GetVenueBookings` (which chooses the bookings that
count), one `Sweep` per booking in the order of starts (ties in any order, as sort.Slice leaves
them), `Finish`, `Respond`. The slots shorter than an hour are dropped when they are found rather
than at the end.

**Payment** has the two consumers (processes `"created"` and `"cancelled"`) and HTTP refund
requests. `log`, `next` and `committed` are a topic, the reader's position and the group's offset:
`ReadMessage` commits before the message is handled, `ReadFails` skips a message whether or not the
commit arrived, `Restart` goes back to what was committed. `LookupCreated` and
`CreatePendingPayment` are two statements; `LookupCancelled` takes the oldest payment of the booking
(`First` orders by primary key). A refund is `LockPayment` (the SELECT FOR UPDATE, which waits for
`~Locked`, and the checks under it) and `CommitRefund`; `RefundFails` rolls back. `CreatePayment`
is one statement. `Announce` is the environment: any event, once or twice over as the writer's
retries leave it, in any order. That is more than reservation-service sends, so the safety results do
not depend on it. `Serve` is everything payment-service does itself.

**RefundLedger** is what that implements: charges, and pay-backs that never come to more than was
charged. The amount paid back is read off the refunds table, not off the payments.

**Venue** has the handlers of venue-service that write. `Create` decodes and validates, `Insert` stores
the row `WithDefaults`: GORM takes a `false` for a missing value where the column has a default.
`Update` and `UpdateSchedule` read the venue and build the row in memory, `SaveVenue` writes every
column of it (and succeeds when the venue has gone), `Reread` fetches the answer. `Delete` reads,
`DeleteRow` sets `deleted_at` and looks at the rows affected. A schedule is decoded (`Decodable`,
`Decoded`) and then validated by the hooks (`ValidWeek`); `MidnightMayPass` says whether the date may
change while it is parsed, in which case a pair of times in the wrong order is let through.

**Booking** puts the two services together. It extends Reservation and instantiates Payment
(`P == INSTANCE Payment WITH log <- ...`) with the two topics as the log, decoded the way the
consumers decode them: a price rounded to whole units (`Rounded`, math.Round), none for a
cancellation. A step is either one of reservation-service (`ReservationStep`, whose publications are
what `Announce` stood for) or one of payment-service (`PaymentStep`, `P!Serve`). They share nothing
else and fail apart: each has its own restarts. `PaymentImplemented` says that the whole is a
behaviour of Payment.

**User** is user-service. `Register` is the insertion of a client whose email is `Free` (the unique
index; nothing in the code looks first), which may be committed and reported as failed; `Login` reads
the row. Either holds the row it inserted or read, and in a later step (`SignToken`, or `SignFails`:
the password is wrong, the signature cannot be made) issues the token that row describes, kept in
`tokens` as its claims; between the two, bcrypt runs in a login, and other requests run in both. `UpdateMe` and `BecomeOwner` read the user
whom the claims name and hold (`Hold`) the whole row they will save; `SaveUser` writes every column
of it. `ClaimsSet` says whether a middleware hands the handlers the claims: the handlers expect one,
and `main.go:57` has it commented out. The runs set it TRUE, which is what the handlers are written
for.

**Gateway** extends User with the gateway in front. A process is a client with one request.
`AuthUnless` lets a request through if its path is public (`isPublicRequest`) or its token is decoded;
`Upstream` says where a path leads. A proxied request is answered (`ServiceAnswers`, `UserBegins`, `UserProceeds`,
`UserAnswers`), or the service is not there (`UpstreamUnavailable`), or it is not answered at all: the
proxy has no timeout. The summary of a booking is three requests the gateway makes in turn:
`FetchBooking`, whose failure is the answer, `FetchVenue` with the venue of the booking just read, and
`FetchPayment`, whose failures become parts of the answer; `FetchFails` is an error or the eight
seconds of the client's timeout. `MoveBooking` is an update at reservation-service meanwhile. The ports
of the services are published as well, so a client may go to user-service directly. The gateway and
user-service restart independently.

## 3. Runs

| Run | Instance | What it shows |
|---|---|---|
| `reservation_serial` | 1 handler, 2 bookings, 2 venues, 8 requests, 5 patches, two offsets, open and closed schedules, a clock | served one at a time, with failures and restarts, the code keeps the calendar: no double booking, one day and its hours on the clocks of the two ends, refusals only for overlaps, cancel events only of cancelled bookings, final rows stay, `CalendarRefined` |
| `reservation_concurrent` | 2 handlers, 2 bookings, 3 requests, 2 patches | what any interleaving keeps: types, start before end under torn updates, events only of committed rows, acknowledged means published, completed and confirmed bookings are safe from updates |
| `reservation_double_booking` | 2 handlers, creations only | *violation*: two overlapping live bookings |
| `reservation_missing_table` | the relations `main.go` migrates | *violation*: a creation refused without an overlap |
| `reservation_lost_cancel` | 2 handlers | *violation*: an update undoes a cancellation |
| `availability` | 3 bookings of 12 shapes, 4 schedules | the slots are exactly the maximal free stretches, in order; asked for in UTC they pass the schedule check and clash with no live booking of one day |
| `payment_safety` | 2 refund requests, both consumers, 2 events a topic, 1 HTTP payment, 1 fault | bounds on refunds, balance of the two tables, one pending payment a booking, payments only grow, `LedgerRefined` |
| `payment_unrefunded` | both consumers, 1 event a topic, no fault | *violation*: a paid and cancelled booking is not paid back |
| `booking` | 1 reservation handler, 1 booking, 1 refund request, both consumers, 2 events a topic, 1 HTTP payment, 1 fault in payment-service | no bill without a booking, no refund without a cancellation, `PaymentImplemented`; events are read, refunds end, an announced booking is billed, a cancelled one is paid back |
| `gateway` | 2 clients, 2 users, 2 emails, 7 requests, 2 venues | one user an email, no token without its user, a granted role settles in the table and then in the tokens, public paths lead where they should, summaries are whole and come |
| `venue` | 2 handlers, 2 venues, 2 weekdays, 3 venues and 4 weeks sent | hours stay in order, a deleted venue stays deleted and as it was, of two deletions one succeeds |
| `venue_day_off` | 1 handler, the same | *violation*: a day off is stored and shown as on, without hours |

**Bounds.** `MaxEvents` bounds a topic, `MaxPayments` the payments made over HTTP, `MaxFaults` the
failures in Payment, `MaxTime` the instants; `MaxCopies` (2) how often the writer's retries leave a
message. They are enough because the hazards are between two actors: two handlers, two bookings that
overlap (or touch, or nest), one duplicate and one restart produce every race in the hazard list.
The requests were chosen so that each local check both passes and fails. The day of four ticks with
an hour of two has every relation of a slot to the hour and the day: shorter, equal, longer,
touching the end of the day, running past it. The offsets of `reservation_serial` are UTC and half a
day behind: a booking from 0 to 5 whose end is given behind UTC passes, is stored and is longer than
the day of 4, while one to 6 falls outside the hours; a patch sets an end in that offset beside a
start that is read back in UTC. The other runs of Reservation are about races, and give every time
in UTC. Handlers and bookings are symmetric (their identities
are only compared), and the symmetry is used in safety runs only. `booking` has one of each actor,
because what it asks is what happens between the services: their inner races have runs of their own.
The price of its booking is 0 or 1 unit by the schedule it meets, a message may be doubled, and
reservation-service fails and restarts without a bound. The seven requests of `gateway` go to all
services, and differ from the public ones in the method, the last part of the path or the token.
With one handler, two bookings show every relation two slots can have. The three bookings of the
availability are what it takes for one to nest in a second while a third follows. Two weekdays tell
a week whose days are all alike from one where a single day is off or wrong; the validation treats
the days one by one. `MidnightMayPass` is FALSE in the runs: they show what holds on any day, and
the theorem names it as its assumption. Every mutant of `PROJECT.json` breaks its property within
these bounds.

**Fairness.** In `FairBookingSpec`: weak fairness of each consumer's steps, because the loops of
`consumer.go:75` and `:140` run as long as the process does and continue after every error; and weak
fairness of `LockPayment` and `CommitRefund`, because a transaction goes on once it has its row.
Nothing is assumed of clients, nor of reservation-service: they need not ask, pay, publish or be
answered. `RefundsAreAnswered` holds under weak fairness here because whoever holds a lock finishes
and the instance has one competitor; Postgres queues lock waiters. `AnnouncedIsBilled` and
`OldestPaidIsReturned` except a failure in payment-service (`faults > 0`), since a consumer drops the
message it fails on; the second excepts a partial refund at the same time, which makes the
consumer's own refund exceed what is left. In `FairGatewaySpec`: weak fairness of `FetchFails` alone,
the timeout of the gateway's client. No service is taken to answer. Reservation states no liveness:
its HTTP client has no timeout, so no answer is promised.

## 4. Findings

Each has a run and a quoted line in `PROJECT.json`.

1. The conflict check does not exclude a concurrent creation (`booking-service.go:147`).
2. The conflict check counts in a relation nothing migrates (`booking-service.go:409`).
3. An update saves a stale row over a cancellation (`booking-service.go:290`).
4. A paid and cancelled booking is not refunded once its event made a pending payment
(`consumer.go:167`).
5. A venue created with a day off, or inactive, is stored as on and active (`venue.go:36`).

Noticed while reading, without a run: availability passes over cancelled bookings
(`booking-service.go:559`) while the conflict check counts them, so that a slot shown as free may be
refused (`AdvertisedIsFree` speaks of live bookings for that reason); each end's day and hours are read in
the offset that end was given in (`booking-service.go:321`, `:395`, `:451`), so that a booking from
`2026-01-25T10:00+12:00` to `2026-01-25T20:00-12:00` is one of a single day to the code and lasts 34
hours, though the comment at `:320` says that a booking stays within one day (`WithinADaysHours` says
what the checks do ensure, `ExclusiveLasts` how long a booking can get; `reservation_serial` stores
one that is longer than a day); a booking that runs past midnight UTC is counted by the availability
on the day it starts only (`:563`); a login or a registration signs the role of the row it read or
inserted (`auth_service.go:132`, `:147`, `:115`), so that a role granted meanwhile is missing from its
token; the gateway's claims hold a
UUID (`gateway/internal/models/claims.go:9`) while user-service signs a numeric id
(`auth_model.go:21`), so that the gateway answers 401 to every token user-service issues
(`Decoded`); user-service runs without the middleware that sets the claims (`main.go:57`), so that
`/users/me` answers 401 as deployed; a registration may be committed and reported as failed, and
then its email is taken; `UpdateMe` ignores the role it is asked for; a token keeps its role for 24
hours whatever becomes of the user's; the proxy has no timeout; the venue's answer and the DTO that
decodes it differ (a week nested twice, `price_cents` against `hour_price`; `dto.go:88`);
`refund-service.go:84` passes a value where `UpdatePayment` takes a pointer; `docker-compose.yaml`
sets no `KAFKA_BROKERS`, which disables the consumers (`consumer.go:58`); a refund of an unknown
payment is answered as an internal error (`handler.go:142`); an update checks the slot of the row it reads
again (`booking-service.go:430`) and saves the row it read first (`:290`), so that with another update
in between a booking may come to run past midnight on every clock; a schedule update writes back every
column of the venue it read (`venue_service.go:165`, under a comment that it updates only the
schedule); the hours of a day are UTC for the availability and each end's own offset for the
schedule check.

## 5. Proofs

TLAPS proves, for every value of the constants that satisfies the named assumptions:

* **ReservationProofs**. `TypeCorrect`, `StoredStartBeforeEnd`: the invariant `Inv` is `TypeOK` and
  `Ordered`, proved together because a price is a natural number only while start precedes end. That
  a torn update cannot store an empty booking follows from `Merge` being checked in memory, on the
  very row that is saved. `SettledRowsAreKept`: adds that a handler that is to save an update holds
  a row that was pending, and that one which cancels holds a row whose own slot and price still
  stand. `EventsAreOfBookings` and `AcknowledgedHasItsEvent`: topics only grow, a row once stored
  stays stored, and a handler that publishes has its row committed.
* **ReservationSerialProofs**. `ClashIsOverlap`; then what the code would keep under a lock. With two
  or more handlers `NoDoubleBooking`, `WithinADaysHours`, `FinalRowsStay`,
  `CancelEventMeansCancelled` and `CalendarRefined` all fail, as the violation runs show of
  `NoDoubleBooking` and `FinalRowsStay` (`WithinADaysHours` because an update checks the slot of its
  second read and saves the row of its first). `ExclusiveNoDoubleBooking`,
  `ExclusiveWithinADaysHours`, `ExclusiveLasts`, `ExclusiveRefinesCalendar`, `ExclusiveFinalRowsStay`
  and `ExclusiveCancelEvents` say how little is missing: `Spec /\ []Exclusive` has them. `Exclusive`
  speaks only of handlers in a `Critical` section (a creation between its last check and its
  insertion, a cancellation or an update from its first read to its save): no two of them there have
  the same booking, or the same venue unless one of them cancels. Everywhere else they interleave,
  fail and restart as they like. It is what a lock on the booking and one on the venue would give,
  and a hypothesis about behaviours, not something the code sees to.
  The invariant `SerialInv` says that what a handler in its section holds is still what the table
  says (`Fresh`), so the slot it is about to write is the one that was found free; `Apart` is
  stronger than `NoDoubleBooking` since it counts cancelled bookings, as the query does. One step
  lemma per operation keeps `Fresh` of the handler that acts, and `OthersFresh` keeps it of all
  others: only there is `Exclusive` needed. A cancellation may share a venue because it moves no
  slot. `WithinADaysHours` is part of `SerialInv`: a handler that has passed its checks has its slot
  on one day by the clocks of `goal` (`Scheduled`, `Checked`), and `ClockReading` turns the code's
  comparison of instants with a midnight into the time of day the clock shows. `ExclusiveLasts`
  follows (`OneDayLasts`): two clocks that differ by at most `spread` leave a booking shorter than a
  day and `spread`, hence shorter than a day where all times are in UTC.
  `SerialNoDoubleBooking`, `SerialWithinADaysHours`, `SerialRefinesCalendar`, `SerialFinalRowsStay` and
  `SerialCancelEvents` are the case of one handler (`OneAtATime`), which run `reservation_serial`
  checks. `SerialRefusals` needs that case, with the relation in place: with a second handler the
  booking that refused a slot may move away before the answer is out.
* **PaymentProofs**. `PaymentTypeCorrect`, `PaymentsAreSound`, `PendingIsUnique`, `PaymentsAreKept`.
  The invariant: a transaction's row is the table's row (`RefundersSound`), a row has one
  transaction (`OneHolder`), and between its look and its insertion the creating consumer's booking
  has no pending payment (`CreatorSound`): it is the only process that makes pending payments.
  `RefundsAreBalanced` and `LedgerIsRefined` are about a sum over the refunds, a recursive function.
  The invariant they add is `Balance`: the total of the refunds of payment `i` is what the payment
  says, and 0 if there is no such payment, for otherwise a payment might be born with refunds.
  `TotalOfAppend`, that a refund adds its amount to the total of its own payment and to no other, is
  proved by induction on the length of the table. The library's induction theorem takes an operator,
  which the provers here cannot instantiate; `NatSetInduction` says the same of a set, and follows
  from the least element of what is left out of the set (`WFMin`). `LedgerIsRefined` then reads the
  ledger off the payments (`LedgerOfBalance`) and maps each step: a payment made enters, a refund
  committed pays back, everything else stutters.
* **AvailabilityProofs**. `SweepStaysInHours`, `AdvertisedSlotsAreFree`. The loop invariant `Swept`:
  every booking swept ends by `prev`, and what was found lies clear of all bookings of the day,
  those still to come included, because they are swept in the order of their starts.
  `SlotsAreAllTheGaps` is the converse, by a second loop invariant `GapInv`: `prev` is the opening
  time or the end of a booking swept, every slot found is `Edged` (bounded on both sides by a
  booking or the day), and every free stretch that starts before `prev` lies in a slot found. At the
  end the slots are the free stretches that no other contains.
* **BookingProofs**. `PaymentIsImplemented` (assuming that payment-service's table takes any whole
  amount, `AllPrices`): a publication, decoded, is an `Announce` (`MappedPublished`: decoding
  commutes with appending), and nothing else reservation-service does is seen by Payment.
  `BillsAreOfBookings`: the invariant `BilledInv` says that the message a consumer works on is in
  its topic, and that a row being refunded was completed, so that no pending row is ever written
  back.
  `ExclusiveOnlyCancelledAreRefunded` adds `ExclusiveCancelEvents` of Reservation and with it
  `[]Exclusive`, which restricts reservation-service alone: refund requests and consumers run
  concurrently. `OnlyCancelledAreRefunded` is its case of one reservation at a time.
  `RefundsAreSoundHere`, `PaymentsAreKeptHere` and `BookingsAreBilledOnce` are what composing is for:
  PaymentProofs is instantiated (`PP`) with the two topics for its log, and its theorems hold of
  `BookingSpec` because `PaymentIsImplemented` proves that reservation-service stays within what
  `Announce` allows. Their hypotheses are `AllPrices` and, as `Configured`, the three `ASSUME`s of
  Payment for this instance: with `AllPrices`, any positive amount. The lemmas `Same...` only say that
  the two instances `P` and `PP` of Payment are the same one.
* **UserProofs**. `UserTypeCorrect`; `EmailsAreUnique`, because both statements that write an email
  are under the unique index; `TokensHaveUsers`, since a row once inserted stays and is held before
  it is signed for; `GrantsSettle`: who saves a user as a client read them as a client, and an owner
  is not read so. `TokensSettleForOwners` says the same of who signs: a token that says Client can
  be issued to an owner, but only from a row read or inserted before the role was granted, and once
  none of those is held there never is one again.
* **GatewayProofs**. `GatewayImplementsUser`: a step of the two together is a step of user-service
  or none, so that the theorems of UserProofs hold behind the gateway. `GatewayTypeCorrect`,
  `PublicPathsAgree`, for any set of requests, and `SummariesAreWhole`, from what a summary knows
  after each of its requests. `UserPromisesHoldHere` carries the theorems of UserProofs over:
  `OneUserPerEmail`, `TokensOfUsers`, `GrantSettles` and `TokensSettle` of the two services together.
* **VenueProofs**. `VenueTypeCorrect`, `StoredHoursOrdered` (assuming that midnight does not pass
  during a parse), `DeletedVenuesStay`, `OneDeletionSucceeds`. `HoursInv` says that the rows in the
  handlers' memory are in order as well as the stored ones: any of them may be written next.

The assumptions are the `ASSUME`s of Slots, Reservation, Payment, Availability, Venue, User, Gateway and
Booking: lengths are positive, inputs have the types the decoders give them, the missing value is
none of the values, a request is not called what a consumer is. TLC evaluates all of them in the runs.

**Only model-checked**: liveness, that is `EventsAreRead`, `RefundsAreAnswered`, `AnnouncedIsBilled`,
`OldestPaidIsReturned` and `SummaryAnswered`. It rests on weak fairness, hence on ENABLED, which this
prover does not reason about. Every invariant and action property of the passing runs and all three
refinements are proved, under the hypotheses named above.

## 6. Not modelled

* The booking queries of reservation-service, `GetMe` and `GetPublicProfile`, the queries of
  venue-service and the receipts of payment-service: one SELECT each, they change nothing.
* `Delete` and `UpdateRole` of user-service's repository, which nothing calls.
* Configuration, start-up, seeding and deployment: read once. What matters of them is a CONSTANT
  (`TableExists`, `BrokersConfigured`, `ClaimsSet`).
* Who may do what to a booking or a venue: an authorisation that fails is a refusal like any other.
* Hashing and signing are libraries: a wrong password is a refusal, a token is its claims, and one
  that is missing, malformed or expired is none.
* Logging, formatting and pagination. Time zones are fixed offsets, as RFC 3339 has them; days of
  other than 24 hours do not occur in JSON times and are not modelled. Money is whole units; a price is a rate times a length, and an event's price is rounded where it is decoded.
* Postgres and Kafka are external: a statement is atomic, a broker keeps what it has acknowledged.

## 7. Plan

Done, in this order: Slots and Reservation, its calendar and its proofs; Payment, its ledger and its
proofs; Availability, Venue and theirs; User and Gateway and theirs; Booking, the composition, and its
proofs; the proofs of every invariant of Reservation and Availability the runs check; the balance of
the refunds and the ledger; the exclusion that the calendar needs; the theorems of the components
carried over to the compositions; the offsets of the two ends of a booking, and tokens that are
signed after the row they speak of was read.

What is left:

1. The safety half of the liveness properties proved: that a step which would make progress stays
   possible until it is taken (what `EventsAreRead` and `RefundsAreAnswered` need besides fairness).
2. Venue and Reservation composed, so that the schedule a booking is checked against is one that was
   stored.
3. What a pending payment of a booking cancelled before its creation was read should become, once
   the code says so.
