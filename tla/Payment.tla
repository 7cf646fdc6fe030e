------------------------------- MODULE Payment -------------------------------
(***************************************************************************)
(* payment-service: HTTP handlers that record payments and refunds, and    *)
(* one consumer for each of the two topics of reservation-service.  A      *)
(* consumer is a goroutine that reads a message, acts on it and reads the  *)
(* next; the reader commits the offset of a message before handing it      *)
(* over.  A refund locks the row of its payment, inserts a refund and      *)
(* saves the payment in one transaction; everything else is a statement of *)
(* its own.                                                                *)
(***************************************************************************)
EXTENDS Integers, Sequences

CONSTANTS
    Handlers,           \* the refund requests served at the same time
    Bookings,
    Prices,             \* the prices booking events may carry
    Amounts,            \* the amounts of payments and refunds
    BrokersConfigured,  \* is KAFKA_BROKERS set
    MaxPayments,        \* payments are made over HTTP up to this many
    MaxEvents,          \* messages a topic holds
    MaxFaults,          \* failures of database, Kafka or process
    None

Topics == {"created", "cancelled"}

\* Those who make refunds: requests, and the consumer of cancellations.
Refunders == Handlers \union {"cancelled"}

Event == [booking : Bookings, price : Prices]

Row == [booking : Bookings, amount : Amounts, refunded : Nat,
        status : {"pending", "completed", "refunded"}]

Refund == [payment : Nat, amount : Amounts]

ASSUME AmountAssumption ==
    /\ Prices \subseteq Nat /\ 0 \in Prices /\ Amounts \subseteq Nat \ {0}
    /\ Prices \ {0} \subseteq Amounts
    /\ \A a \in Amounts : 1 .. a \subseteq Amounts

ASSUME BoundAssumption ==
    MaxPayments \in Nat /\ MaxEvents \in Nat /\ MaxFaults \in Nat
    /\ BrokersConfigured \in BOOLEAN

ASSUME NameAssumption ==
    Handlers \intersect Topics = {} /\ None \notin Event /\ None \notin Refund /\ None \notin Row

VARIABLES
    log,        \* the messages of each topic
    next,       \* the message each reader fetches next
    committed,  \* the offset each topic's consumer group has committed
    event,      \* the message each consumer works on
    payments,   \* table payments, in the order of its ids
    refunds,    \* table refunds
    pc,
    job,        \* the refund a request or the cancellation consumer wants
    seen,       \* the payment its transaction read under the row lock
    faults      \* failures so far

reading == <<log, next, committed, event>>
tables == <<payments, refunds>>
refunding == <<job, seen>>
vars == <<log, next, committed, event, payments, refunds, pc, job, seen, faults>>

Answers == {"refunded", "refused", "internal"}

PCs == {"idle", "lookup", "insert", "lock", "commit"} \union Answers

Step(w, from, to) == pc[w] = from /\ pc' = [pc EXCEPT ![w] = to]

Fault == faults < MaxFaults /\ faults' = faults + 1

(***************************************************************************)
(* The topics                                                              *)
(***************************************************************************)
\* A message may be in its topic twice: the writer tries again.
MaxCopies == 2

\* reservation-service announces a booking or a cancellation, in any order:
\* the two topics have nothing in common.  A cancellation carries no price.
Announce ==
    /\ \E t \in Topics, e \in Event, n \in 1 .. MaxCopies :
           /\ Len(log[t]) + n <= MaxEvents
           /\ t = "cancelled" => e.price = 0
           /\ log' = [log EXCEPT ![t] = @ \o [i \in 1 .. n |-> e]]
    /\ UNCHANGED <<next, committed, event, tables, pc, refunding, faults>>

\* Mutation of Accepted: the price is not looked at.
AcceptedUnchecked(t, e) == TRUE

\* Mutation of Accepted: a cancellation wants a price too.
AcceptedPriced(t, e) == e.price > 0

\* An event without a positive price is dropped.
Accepted(t, e) == t = "created" => e.price > 0

\* The offset is committed before the message is worked on.
ReadMessage(t) ==
    /\ BrokersConfigured
    /\ next[t] < Len(log[t])
    /\ LET e == log[t][next[t] + 1] IN
           /\ Step(t, "idle", IF Accepted(t, e) THEN "lookup" ELSE "idle")
           /\ event' = [event EXCEPT ![t] = e]
    /\ next' = [next EXCEPT ![t] = @ + 1]
    /\ committed' = [committed EXCEPT ![t] = next[t] + 1]
    /\ UNCHANGED <<log, tables, refunding, faults>>

\* Mutation of ReadFails: the loop returns on a read error.
ReadFailsReturns(t) ==
    /\ Fault
    /\ BrokersConfigured
    /\ next[t] < Len(log[t])
    /\ Step(t, "idle", "internal")
    /\ UNCHANGED <<reading, tables, refunding>>

\* When the commit fails (or only its answer is lost) the message is skipped:
\* the reader has moved on.
ReadFails(t) ==
    /\ Fault
    /\ BrokersConfigured
    /\ pc[t] = "idle" /\ next[t] < Len(log[t])
    /\ next' = [next EXCEPT ![t] = @ + 1]
    /\ \E c \in {committed[t], next[t] + 1} :
           committed' = [committed EXCEPT ![t] = c]
    /\ UNCHANGED <<log, event, tables, pc, refunding>>

\* Any database error makes the consumer drop its message and go on.
ConsumerFails(t) ==
    /\ Fault
    /\ pc[t] \in {"lookup", "insert"}
    /\ pc' = [pc EXCEPT ![t] = "idle"]
    /\ UNCHANGED <<reading, tables, refunding>>

(***************************************************************************)
(* consumeBookingCreated                                                   *)
(***************************************************************************)
PaymentsOf(b) == {i \in DOMAIN payments : payments[i].booking = b}

\* Mutation of LookupCreated: no look at the payments there are.
LookupSkipped ==
    /\ Step("created", "lookup", "insert")
    /\ UNCHANGED <<reading, tables, refunding, faults>>

LookupCreated ==
    /\ Step("created", "lookup",
            IF PaymentsOf(event["created"].booking) = {} THEN "insert" ELSE "idle")
    /\ UNCHANGED <<reading, tables, refunding, faults>>

NewPayment(b, a, status) ==
    [booking |-> b, amount |-> a, refunded |-> 0, status |-> status]

CreatePendingPayment ==
    /\ Step("created", "insert", "idle")
    /\ payments' = Append(payments, NewPayment(event["created"].booking,
                                               event["created"].price, "pending"))
    /\ UNCHANGED <<reading, refunds, refunding, faults>>

(***************************************************************************)
(* consumeBookingCancelled                                                 *)
(***************************************************************************)
\* The payment found is the oldest of the booking, whatever its status.
IsFirst(i, b) == i \in PaymentsOf(b) /\ \A j \in PaymentsOf(b) : i <= j

\* Mutation of Remaining: what went back already is forgotten.
RemainingOfAmount(p) == p.amount

Remaining(p) == p.amount - p.refunded

Refundable(p) == p.status = "completed" /\ Remaining(p) > 0

LookupCancelled ==
    LET b == event["cancelled"].booking IN
    \E i \in DOMAIN payments :
        /\ pc["cancelled"] = "lookup"
        /\ IsFirst(i, b) /\ Refundable(payments[i])
        /\ Step("cancelled", "lookup", "lock")
        /\ job' = [job EXCEPT !["cancelled"] =
                      [payment |-> i, amount |-> Remaining(payments[i])]]
        /\ UNCHANGED <<reading, tables, seen, faults>>

NothingToRefund ==
    LET b == event["cancelled"].booking IN
    /\ Step("cancelled", "lookup", "idle")
    /\ \A i \in DOMAIN payments : IsFirst(i, b) => ~Refundable(payments[i])
    /\ UNCHANGED <<reading, tables, refunding, faults>>

(***************************************************************************)
(* Payments and refunds                                                    *)
(***************************************************************************)
CreatePayment ==
    /\ \E b \in Bookings, a \in Amounts :
           /\ Len(payments) < MaxPayments
           /\ payments' = Append(payments, NewPayment(b, a, "completed"))
    /\ UNCHANGED <<reading, refunds, pc, refunding, faults>>

CreateRefund(h) ==
    \E i \in 1 .. MaxPayments, a \in Amounts :
        /\ Step(h, "idle", "lock")
        /\ job' = [job EXCEPT ![h] = [payment |-> i, amount |-> a]]
        /\ UNCHANGED <<reading, tables, seen, faults>>

\* The consumer logs how its refund ended and reads the next message.
After(w, answer) == IF w \in Handlers THEN answer ELSE "idle"

\* Mutation of Locked: the row is read without FOR UPDATE.
LockedNever(i) == FALSE

\* Mutation of Locked: the transaction ends only with the request.
LockedUntilResponse(i) ==
    \E w \in Refunders :
        pc[w] \in {"commit"} \union Answers /\ job[w].payment = i

Locked(i) == \E w \in Refunders : pc[w] = "commit" /\ job[w].payment = i

\* A payment that does not exist is answered like a database error.
Verdict(i, a) ==
    IF i \notin DOMAIN payments THEN "internal"
    ELSE IF payments[i].status # "completed" \/ a > Remaining(payments[i])
    THEN "refused" ELSE "commit"

\* SELECT ... FOR UPDATE waits for the row, then reads it.
LockPayment(w) ==
    /\ pc[w] = "lock" /\ ~Locked(job[w].payment)
    /\ LET v == Verdict(job[w].payment, job[w].amount) IN
           /\ pc' = [pc EXCEPT ![w] = IF v = "commit" THEN v ELSE After(w, v)]
           /\ seen' = [seen EXCEPT ![w] =
                          IF v = "commit" THEN payments[job[w].payment] ELSE None]
    /\ UNCHANGED <<reading, tables, job, faults>>

\* Mutation of Refunded: the payment is closed only above its amount.
RefundedStrict(p, a) ==
    [p EXCEPT !.refunded = @ + a,
              !.status = IF p.refunded + a > p.amount THEN "refunded" ELSE @]

Refunded(p, a) ==
    [p EXCEPT !.refunded = @ + a,
              !.status = IF p.refunded + a >= p.amount THEN "refunded" ELSE @]

\* The refund is inserted and the row that was read is saved, all or nothing.
CommitRefund(w) ==
    /\ Step(w, "commit", After(w, "refunded"))
    /\ refunds' = Append(refunds, job[w])
    /\ payments' = [payments EXCEPT ![job[w].payment] = Refunded(seen[w], job[w].amount)]
    /\ seen' = [seen EXCEPT ![w] = None]
    /\ UNCHANGED <<reading, job, faults>>

RefundFails(w) ==
    /\ Fault
    /\ pc[w] \in {"lock", "commit"}
    /\ pc' = [pc EXCEPT ![w] = After(w, "internal")]
    /\ seen' = [seen EXCEPT ![w] = None]
    /\ UNCHANGED <<reading, tables, job>>

Respond(h) ==
    /\ pc[h] \in Answers
    /\ pc' = [pc EXCEPT ![h] = "idle"]
    /\ job' = [job EXCEPT ![h] = None]
    /\ UNCHANGED <<reading, tables, seen, faults>>

(***************************************************************************)
(* The process                                                             *)
(***************************************************************************)
\* After a restart the readers go on from the committed offsets.
Restart ==
    /\ Fault
    /\ pc' = [w \in Handlers \union Topics |-> "idle"]
    /\ next' = committed
    /\ event' = [t \in Topics |-> None]
    /\ job' = [w \in Refunders |-> None]
    /\ seen' = [w \in Refunders |-> None]
    /\ UNCHANGED <<log, committed, tables>>

Init ==
    /\ log = [t \in Topics |-> << >>]
    /\ next = [t \in Topics |-> 0]
    /\ committed = [t \in Topics |-> 0]
    /\ event = [t \in Topics |-> None]
    /\ payments = << >> /\ refunds = << >>
    /\ pc = [w \in Handlers \union Topics |-> "idle"]
    /\ job = [w \in Refunders |-> None]
    /\ seen = [w \in Refunders |-> None]
    /\ faults = 0

Consume ==
    \/ \E t \in Topics : ReadMessage(t)
    \/ LookupCreated \/ CreatePendingPayment
    \/ LookupCancelled \/ NothingToRefund

MakeRefund(w) == LockPayment(w) \/ CommitRefund(w)

\* What payment-service does itself.
Serve ==
    \/ Consume
    \/ \E t \in Topics : ReadFails(t) \/ ConsumerFails(t)
    \/ CreatePayment
    \/ \E h \in Handlers : CreateRefund(h) \/ Respond(h)
    \/ \E w \in Refunders : MakeRefund(w) \/ RefundFails(w)
    \/ Restart

Next == Announce \/ Serve

Spec == Init /\ [][Next]_vars

\* The two loops of the consumer run as long as the process does, and a
\* transaction that holds a row lock ends; nothing is assumed of requests.
Fairness ==
    /\ \A t \in Topics : WF_vars(ReadMessage(t))
    /\ WF_vars(LookupCreated) /\ WF_vars(CreatePendingPayment)
    /\ WF_vars(LookupCancelled) /\ WF_vars(NothingToRefund)
    /\ \A w \in Refunders : WF_vars(LockPayment(w)) /\ WF_vars(CommitRefund(w))

FairSpec == Spec /\ Fairness

(***************************************************************************)
(* Properties                                                              *)
(***************************************************************************)
\* Every variable holds a value of its type.
TypeOK ==
    /\ log \in [Topics -> Seq(Event)]
    /\ next \in [Topics -> Nat] /\ committed \in [Topics -> Nat]
    /\ event \in [Topics -> Event \union {None}]
    /\ payments \in Seq(Row) /\ refunds \in Seq(Refund)
    /\ pc \in [Handlers \union Topics -> PCs]
    /\ job \in [Refunders -> Refund \union {None}]
    /\ seen \in [Refunders -> Row \union {None}]
    /\ faults \in 0 .. MaxFaults

\* No payment gives back more than it took, only one that was made gives
\* anything back, and it is closed exactly when all of it went back.
PaymentsSound ==
    \A i \in DOMAIN payments :
        LET p == payments[i] IN
        /\ p.refunded <= p.amount
        /\ p.status = "refunded" <=> p.refunded = p.amount
        /\ p.status = "pending" => p.refunded = 0

\* The refunds of payment i, added up row by row.
TotalOf(table, i) ==
    LET total[k \in 0 .. Len(table)] ==
            IF k = 0 THEN 0
            ELSE total[k - 1] + (IF table[k].payment = i THEN table[k].amount ELSE 0)
    IN total[Len(table)]

RefundedTotal(i) == TotalOf(refunds, i)

\* The refunds of a payment come to what the payment says was refunded: no
\* refund is lost between two that read the payment at the same time.
RefundsBalance == \A i \in DOMAIN payments : payments[i].refunded = RefundedTotal(i)

\* A booking gets at most one pending payment, although its event may be sent
\* twice or read again after a restart.
OnePendingPayment ==
    \A i, j \in DOMAIN payments :
        /\ payments[i].status = "pending" /\ payments[j].status = "pending"
        /\ payments[i].booking = payments[j].booking
        => i = j

\* No payment disappears or changes what it is for; what was refunded only
\* grows, and a refunded payment is closed.
PaymentsOnlyGrow ==
    [][\A i \in DOMAIN payments :
           /\ i \in DOMAIN payments'
           /\ payments'[i].booking = payments[i].booking
           /\ payments'[i].amount = payments[i].amount
           /\ payments'[i].refunded >= payments[i].refunded
           /\ payments[i].status = "refunded" => payments'[i] = payments[i]]_vars

\* The two tables as a ledger: what was charged, was it paid, what went back.
LedgerView ==
    [i \in DOMAIN payments |->
        [amount |-> payments[i].amount,
         paid |-> payments[i].status # "pending",
         back |-> RefundedTotal(i)]]

Ledger == INSTANCE RefundLedger WITH ledger <- LedgerView

\* The money paid back, as the refunds table tells it, follows the ledger.
LedgerRefined == Ledger!Spec

\* A message in a topic is read, whatever failed before.
EventsAreRead == \A t \in Topics : []<>(next[t] = Len(log[t]))

\* A refund that was asked for ends: nobody waits for a row lock for ever.
RefundsAreAnswered ==
    \A w \in Refunders :
        pc[w] \in {"lock", "commit"} ~> pc[w] \in Answers \union {"idle"}

Unread(b) ==
    \E k \in DOMAIN log["cancelled"] :
        k > next["cancelled"] /\ log["cancelled"][k].booking = b

PaidBy(i, b) == {j \in PaymentsOf(b) : payments[j].status = "completed"} = {i}

Returned(i) == i \in DOMAIN payments /\ payments[i].status = "refunded"

\* Unless something failed, the one payment that was made for a booking when
\* its cancellation is announced goes back: what consumer.go:177-184 refunds,
\* giving as its reason the cancellation of the booking.
CancelledIsRefunded ==
    \A b \in Bookings, i \in 1 .. MaxPayments :
        (PaidBy(i, b) /\ Unread(b))
        ~> (faults > 0 \/ Returned(i))
===============================================================================
