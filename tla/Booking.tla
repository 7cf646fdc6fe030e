--------------------------------- MODULE Booking ---------------------------------
(***************************************************************************)
(* reservation-service and payment-service together: what the one          *)
(* publishes the other's consumers read.  Reservation is extended; Payment *)
(* is instantiated with the two topics for its log, and with nothing else  *)
(* to announce.  The services share no other state, and fail apart.        *)
(***************************************************************************)
EXTENDS Reservation

CONSTANTS
    RefundHandlers,   \* the refund requests served at the same time
    Prices, Amounts, BrokersConfigured, MaxPayments, MaxFaults

ASSUME RefundAssumption == RefundHandlers \intersect {"created", "cancelled"} = {}

VARIABLES
    next, committed, event, payments, refunds, work, job, seen, faults

paymentVars == <<next, committed, event, payments, refunds, work, job, seen, faults>>
bookingVars == <<now, rows, pc, bid, mem, goal, patch, createdTopic, cancelledTopic,
                 next, committed, event, payments, refunds, work, job, seen, faults>>

\* Mutation of Rounded: the price is taken as it is counted.
Unrounded(price) == price

\* math.Round, of a price that is counted in HourLength-ths.
Rounded(price) == (2 * price + HourLength) \div (2 * HourLength)

\* The events as payment-service decodes them: an amount in whole units, and
\* none for a cancellation.
Decoded(topic) ==
    IF topic = "created"
    THEN [i \in DOMAIN createdTopic |->
             [booking |-> createdTopic[i].booking, price |-> Rounded(createdTopic[i].price)]]
    ELSE [i \in DOMAIN cancelledTopic |-> [booking |-> cancelledTopic[i], price |-> 0]]

P == INSTANCE Payment WITH
         Handlers <- RefundHandlers, Bookings <- BookingIds, pc <- work,
         log <- [t \in {"created", "cancelled"} |-> Decoded(t)]

BookingInit == Init /\ P!Init

ReservationStep == Next /\ UNCHANGED paymentVars

PaymentStep == UNCHANGED vars /\ P!Serve

BookingNext == ReservationStep \/ PaymentStep

BookingSpec == BookingInit /\ [][BookingNext]_bookingVars

\* That of payment-service; clients and reservation-service owe nothing.
Fairness ==
    /\ \A t \in P!Topics : WF_bookingVars(UNCHANGED vars /\ P!ReadMessage(t))
    /\ WF_bookingVars(UNCHANGED vars /\ P!LookupCreated)
    /\ WF_bookingVars(UNCHANGED vars /\ P!CreatePendingPayment)
    /\ WF_bookingVars(UNCHANGED vars /\ P!LookupCancelled)
    /\ WF_bookingVars(UNCHANGED vars /\ P!NothingToRefund)
    /\ \A w \in P!Refunders :
           /\ WF_bookingVars(UNCHANGED vars /\ P!LockPayment(w))
           /\ WF_bookingVars(UNCHANGED vars /\ P!CommitRefund(w))

FairBookingSpec == BookingSpec /\ Fairness

(***************************************************************************)
(* Properties                                                              *)
(***************************************************************************)
\* What Payment takes its environment to do is all that reservation-service
\* does to it, so that what Payment promises holds here.
PaymentImplemented == P!Spec

\* A pending payment, which nobody but the consumer of created bookings makes,
\* is of a booking that was committed, at the amount announced for it.
PendingIsAnnounced ==
    \A i \in DOMAIN payments :
        payments[i].status = "pending" =>
            /\ Stored(payments[i].booking)
            /\ \E k \in DOMAIN createdTopic :
                   /\ createdTopic[k].booking = payments[i].booking
                   /\ Rounded(createdTopic[k].price) = payments[i].amount

\* What the consumer of cancellations pays back is of a booking that is
\* cancelled, whatever failed between the two services, as long as
\* reservation-service serves one request at a time.
RefundMeansCancelled ==
    work["cancelled"] \in {"lookup", "lock", "commit"} =>
        LET b == event["cancelled"].booking
        IN  Stored(b) /\ rows[b].status = "cancelled"

\* A message in a topic is read, whatever failed before.
EventsAreRead == P!EventsAreRead

\* A refund that was asked for ends: nobody waits for a row lock for ever.
RefundsAreAnswered == P!RefundsAreAnswered

\* A client told that its booking was created, at half a unit or more, is
\* billed, unless something fails in payment-service; and so is one told of an
\* error whose event arrived all the same.
AnnouncedIsBilled ==
    \A b \in BookingIds :
        \/ \E h \in Handlers : pc[h] = "created" /\ bid[h] = b /\ 2 * mem[h].price >= HourLength
        \/ \E k \in DOMAIN createdTopic :
               createdTopic[k].booking = b /\ 2 * createdTopic[k].price >= HourLength
        ~> (P!PaymentsOf(b) # {} \/ faults > 0)

CancelUnread(b) ==
    \E k \in DOMAIN cancelledTopic : k > next["cancelled"] /\ cancelledTopic[k] = b

PaidBackInPart(i) ==
    \E k \in DOMAIN refunds : refunds[k].payment = i /\ refunds[k].amount < payments[i].amount

\* When a cancellation waits to be read and the oldest payment of the booking
\* was made, all of it goes back, unless a client is paid back a part of it at
\* the same time or something fails in payment-service.
OldestPaidIsReturned ==
    \A b \in BookingIds, i \in 1 .. MaxPayments :
        (i \in DOMAIN payments /\ P!IsFirst(i, b) /\ payments[i].status = "completed"
             /\ CancelUnread(b))
        ~> (P!Returned(i) \/ PaidBackInPart(i) \/ faults > 0)
================================================================================
