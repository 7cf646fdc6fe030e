---------------------------- MODULE PaymentProofs ----------------------------
(***************************************************************************)
(* What payment-service keeps true for any number of refund requests,      *)
(* bookings and messages.  The argument is the row lock: between the read  *)
(* of a payment and its save nobody else is in a transaction on that row,  *)
(* so what was read is still what the table holds.                         *)
(***************************************************************************)
EXTENDS Payment, TLAPS, WellFoundedInduction

\* A transaction works on the payment as the table holds it, and within what
\* is left of it.
HoldsRow(w) ==
    /\ job[w].payment \in DOMAIN payments
    /\ seen[w] = payments[job[w].payment]
    /\ seen[w].status = "completed"
    /\ job[w].amount <= Remaining(seen[w])

RefundersSound ==
    \A w \in Refunders :
        /\ pc[w] \in {"lock", "commit"} => job[w] \in Refund
        /\ pc[w] = "commit" => HoldsRow(w)

\* FOR UPDATE: a row has one transaction at a time.
OneHolder ==
    \A v, w \in Refunders :
        pc[v] = "commit" /\ pc[w] = "commit" /\ job[v].payment = job[w].payment => v = w

\* The consumer of bookings is about to bill one that has no pending payment.
CreatorSound ==
    /\ pc["created"] \in {"lookup", "insert"} =>
           event["created"] \in Event /\ event["created"].price > 0
    /\ pc["created"] = "insert" =>
           \A i \in DOMAIN payments :
               payments[i].booking = event["created"].booking
               => payments[i].status # "pending"

Inv ==
    /\ TypeOK /\ PaymentsSound /\ OnePendingPayment
    /\ RefundersSound /\ OneHolder /\ CreatorSound

USE DEF Topics, Refunders

(***************************************************************************)
(* Rows                                                                    *)
(***************************************************************************)

\* What a payment is when it is made: nothing went back, and it is open.
LEMMA NewPaymentSound ==
    ASSUME NEW b \in Bookings, NEW a \in Amounts, NEW s \in {"pending", "completed"}
    PROVE  /\ NewPayment(b, a, s) \in Row
           /\ NewPayment(b, a, s).booking = b
           /\ NewPayment(b, a, s).amount = a
           /\ NewPayment(b, a, s).refunded = 0
           /\ NewPayment(b, a, s).status = s
BY AmountAssumption DEF NewPayment, Row

\* What a refund within what is left does to the row it read.
LEMMA RefundedSound ==
    ASSUME NEW p \in Row, NEW a \in Amounts,
           p.status = "completed", p.refunded < p.amount, a <= Remaining(p)
    PROVE  /\ Refunded(p, a) \in Row
           /\ Refunded(p, a).booking = p.booking
           /\ Refunded(p, a).amount = p.amount
           /\ Refunded(p, a).refunded = p.refunded + a
           /\ Refunded(p, a).refunded <= p.amount
           /\ Refunded(p, a).status \in {"completed", "refunded"}
           /\ Refunded(p, a).status = "refunded"
              <=> Refunded(p, a).refunded = Refunded(p, a).amount
<1> DEFINE n == p.refunded + a
           t == IF n >= p.amount THEN "refunded" ELSE p.status
           q == [p EXCEPT !.refunded = n]
           r == [q EXCEPT !.status = t]
<1>1. p.amount \in Nat /\ p.refunded \in Nat /\ a \in Nat
  BY AmountAssumption DEF Row
<1>2. n \in Nat /\ n <= p.amount
  BY <1>1 DEF Remaining
<1>3. t \in {"completed", "refunded"} /\ (t = "refunded" <=> n = p.amount)
  BY <1>1, <1>2
<1>4. Refunded(p, a) = r
  BY DEF Refunded, Row
<1>5. n = p.refunded + a
  OBVIOUS
<1> HIDE DEF n, t
<1>6. q \in Row /\ q.booking = p.booking /\ q.amount = p.amount /\ q.refunded = n
  BY <1>2 DEF Row
<1> HIDE DEF q
<1>7. /\ r \in Row /\ r.booking = q.booking /\ r.amount = q.amount
      /\ r.refunded = q.refunded /\ r.status = t
  BY <1>3, <1>6 DEF Row
<1> HIDE DEF r
<1>8. QED
  BY <1>2, <1>3, <1>4, <1>5, <1>6, <1>7

\* The two ways the table changes keep it sound: a payment is added ...
LEMMA AppendSound ==
    ASSUME payments \in Seq(Row), PaymentsSound, OnePendingPayment,
           NEW b \in Bookings, NEW a \in Amounts, NEW s \in {"pending", "completed"},
           payments' = Append(payments, NewPayment(b, a, s)),
           s = "pending" => \A i \in DOMAIN payments :
               payments[i].booking = b => payments[i].status # "pending"
    PROVE  /\ payments' \in Seq(Row) /\ PaymentsSound' /\ OnePendingPayment'
           /\ \A i \in DOMAIN payments :
                  i \in DOMAIN payments' /\ payments'[i] = payments[i]
<1> DEFINE r == NewPayment(b, a, s)
<1>1. r \in Row /\ r.booking = b /\ r.amount = a /\ r.refunded = 0 /\ r.status = s
  BY NewPaymentSound
<1> HIDE DEF r
<1>2. payments' = Append(payments, r)
  BY DEF r
<1>3. /\ payments' \in Seq(Row)
      /\ DOMAIN payments' = DOMAIN payments \union {Len(payments) + 1}
      /\ \A i \in DOMAIN payments : payments'[i] = payments[i]
      /\ payments'[Len(payments) + 1] = r
      /\ Len(payments) + 1 \notin DOMAIN payments
  BY <1>1, <1>2
<1>4. PaymentsSound'
  <2> SUFFICES ASSUME NEW i \in DOMAIN payments'
               PROVE  /\ payments'[i].refunded <= payments'[i].amount
                      /\ payments'[i].status = "refunded"
                         <=> payments'[i].refunded = payments'[i].amount
                      /\ payments'[i].status = "pending" => payments'[i].refunded = 0
    BY DEF PaymentsSound
  <2>1. CASE i \in DOMAIN payments
    BY <1>3, <2>1 DEF PaymentsSound
  <2>2. CASE i = Len(payments) + 1
    BY <1>1, <1>3, <2>2, AmountAssumption
  <2>3. QED
    BY <1>3, <2>1, <2>2
<1>5. OnePendingPayment'
  BY <1>1, <1>3 DEF OnePendingPayment
<1>6. QED
  BY <1>3, <1>4, <1>5

\* ... or the row that a transaction read is saved with a refund added.
LEMMA SaveSound ==
    ASSUME payments \in Seq(Row), PaymentsSound, OnePendingPayment,
           NEW i \in DOMAIN payments, NEW a \in Amounts,
           payments[i].status = "completed", a <= Remaining(payments[i]),
           payments' = [payments EXCEPT ![i] = Refunded(payments[i], a)]
    PROVE  /\ payments' \in Seq(Row) /\ PaymentsSound' /\ OnePendingPayment'
           /\ DOMAIN payments' = DOMAIN payments
           /\ \A j \in DOMAIN payments : j # i => payments'[j] = payments[j]
           /\ payments'[i].booking = payments[i].booking
           /\ payments'[i].amount = payments[i].amount
           /\ payments'[i].refunded = payments[i].refunded + a
           /\ payments'[i].status # "pending"
<1> DEFINE r == Refunded(payments[i], a)
<1>0. payments[i] \in Row
  OBVIOUS
<1>1. payments[i] \in Row /\ payments[i].refunded < payments[i].amount
  BY <1>0, AmountAssumption DEF PaymentsSound, Row
<1>2. /\ r \in Row
      /\ r.booking = payments[i].booking
      /\ r.amount = payments[i].amount
      /\ r.refunded = payments[i].refunded + a
      /\ r.refunded <= r.amount
      /\ r.status \in {"completed", "refunded"}
      /\ r.status = "refunded" <=> r.refunded = r.amount
  BY <1>1, RefundedSound
<1> HIDE DEF r
<1>3. payments' = [payments EXCEPT ![i] = r]
  BY DEF r
<1>4. /\ payments' \in Seq(Row)
      /\ DOMAIN payments' = DOMAIN payments
      /\ \A j \in DOMAIN payments : j # i => payments'[j] = payments[j]
      /\ payments'[i] = r
  BY <1>2, <1>3
<1>5. PaymentsSound'
  <2> SUFFICES ASSUME NEW j \in DOMAIN payments'
               PROVE  /\ payments'[j].refunded <= payments'[j].amount
                      /\ payments'[j].status = "refunded"
                         <=> payments'[j].refunded = payments'[j].amount
                      /\ payments'[j].status = "pending" => payments'[j].refunded = 0
    BY DEF PaymentsSound
  <2>1. CASE j # i
    BY <1>4, <2>1 DEF PaymentsSound
  <2>2. CASE j = i
    BY <1>2, <1>4, <2>2
  <2>3. QED
    BY <2>1, <2>2
<1>6. OnePendingPayment'
  BY <1>2, <1>4 DEF OnePendingPayment
<1>7. r.refunded >= payments[i].refunded
  BY <1>0, <1>2, AmountAssumption DEF Row
<1>8. QED
  BY <1>2, <1>4, <1>5, <1>6, <1>7

(***************************************************************************)
(* The steps                                                               *)
(***************************************************************************)
LEMMA InitInv == Init => Inv
<1> SUFFICES ASSUME Init PROVE Inv
  OBVIOUS
<1>1. /\ log \in [Topics -> Seq(Event)]
      /\ payments \in Seq(Row) /\ refunds \in Seq(Refund)
  BY DEF Init
<1>2. TypeOK
  BY <1>1, BoundAssumption DEF Init, TypeOK, PCs
<1>3. PaymentsSound /\ OnePendingPayment
  BY DEF Init, PaymentsSound, OnePendingPayment
<1>4. RefundersSound /\ OneHolder /\ CreatorSound
  BY DEF Init, RefundersSound, OneHolder, CreatorSound
<1>5. QED
  BY <1>2, <1>3, <1>4 DEF Inv

\* A step that leaves the payments alone, and in which no transaction reads a
\* row, keeps everything when the types and the consumer of bookings do.
LEMMA QuietStep ==
    ASSUME Inv, TypeOK', CreatorSound', UNCHANGED payments,
           \A w \in Refunders :
               \/ pc'[w] = pc[w] /\ job'[w] = job[w] /\ seen'[w] = seen[w]
               \/ pc'[w] = "lock" /\ job'[w] \in Refund
               \/ pc'[w] \notin {"lock", "commit"}
    PROVE  Inv'
<1>1. PaymentsSound' /\ OnePendingPayment'
  BY DEF Inv, PaymentsSound, OnePendingPayment
<1>2. RefundersSound'
  BY DEF Inv, RefundersSound, HoldsRow, Remaining
<1>3. OneHolder'
  BY DEF Inv, OneHolder
<1>4. QED
  BY <1>1, <1>2, <1>3 DEF Inv

\* The topics and their readers.
LEMMA AnnounceInv == Inv /\ Announce => Inv'
<1> SUFFICES ASSUME Inv, Announce PROVE Inv'
  OBVIOUS
<1> USE DEF tables, refunding
<1>1. log' \in [Topics -> Seq(Event)]
  <2>1. PICK t \in Topics, e \in Event, n \in 1 .. MaxCopies :
            log' = [log EXCEPT ![t] = @ \o [i \in 1 .. n |-> e]]
    BY DEF Announce
  <2>2. log[t] \o [i \in 1 .. n |-> e] \in Seq(Event)
    <3>1. [i \in 1 .. n |-> e] \in Seq(Event)
      BY DEF MaxCopies
    <3>2. QED
      BY <3>1 DEF Inv, TypeOK
  <2>3. QED
    BY <2>1, <2>2 DEF Inv, TypeOK
<1>2. TypeOK'
  BY <1>1 DEF Inv, TypeOK, Announce
<1>3. CreatorSound'
  BY DEF Inv, CreatorSound, Announce
<1>4. QED
  BY <1>2, <1>3, QuietStep DEF Announce

LEMMA ReadMessageInv ==
    ASSUME Inv, NEW t \in Topics, ReadMessage(t)
    PROVE  Inv'
<1> USE DEF tables, refunding
<1> DEFINE e == log[t][next[t] + 1]
           to == IF Accepted(t, e) THEN "lookup" ELSE "idle"
<1>1. next[t] \in Nat /\ log[t] \in Seq(Event) /\ next[t] < Len(log[t])
  BY DEF Inv, TypeOK, ReadMessage
<1>2. e \in Event
  BY <1>1
<1>3. pc' = [pc EXCEPT ![t] = to] /\ event' = [event EXCEPT ![t] = e] /\ pc[t] = "idle"
  BY DEF ReadMessage, Step
<1>4. to \in {"lookup", "idle"} /\ (t = "created" /\ to = "lookup" => e.price > 0)
  BY DEF Accepted
<1> HIDE DEF e, to
<1>5. TypeOK'
  <2>1. next' \in [Topics -> Nat] /\ committed' \in [Topics -> Nat]
    BY <1>1 DEF Inv, TypeOK, ReadMessage
  <2>2. pc' \in [Handlers \union Topics -> PCs] /\ event' \in [Topics -> Event \union {None}]
    BY <1>2, <1>3, <1>4 DEF Inv, TypeOK, PCs
  <2>3. QED
    BY <2>1, <2>2 DEF Inv, TypeOK, ReadMessage
<1>6. CreatorSound'
  BY <1>2, <1>3, <1>4 DEF Inv, TypeOK, CreatorSound, ReadMessage
<1>7. \A w \in Refunders : pc'[w] = pc[w] \/ pc'[w] \notin {"lock", "commit"}
  BY <1>3, <1>4 DEF Inv, TypeOK
<1>8. QED
  BY <1>5, <1>6, <1>7, QuietStep DEF ReadMessage

LEMMA ReadFailsInv ==
    ASSUME Inv, NEW t \in Topics, ReadFails(t)
    PROVE  Inv'
<1> USE DEF tables, refunding
<1>1. next[t] + 1 \in Nat /\ committed[t] \in Nat
  BY DEF Inv, TypeOK
<1>2. next' \in [Topics -> Nat] /\ committed' \in [Topics -> Nat]
  BY <1>1 DEF Inv, TypeOK, ReadFails
<1>3. faults' \in 0 .. MaxFaults
  BY BoundAssumption DEF Inv, TypeOK, ReadFails, Fault
<1>4. TypeOK'
  BY <1>2, <1>3 DEF Inv, TypeOK, ReadFails
<1>5. CreatorSound'
  BY DEF Inv, CreatorSound, ReadFails
<1>6. QED
  BY <1>4, <1>5, QuietStep DEF ReadFails

LEMMA ConsumerFailsInv ==
    ASSUME Inv, NEW t \in Topics, ConsumerFails(t)
    PROVE  Inv'
<1> USE DEF tables, refunding
<1>1. TypeOK'
  BY BoundAssumption DEF Inv, TypeOK, ConsumerFails, Fault, PCs, reading
<1>2. CreatorSound'
  BY DEF Inv, TypeOK, CreatorSound, ConsumerFails, reading
<1>3. \A w \in Refunders : pc'[w] = pc[w] \/ pc'[w] \notin {"lock", "commit"}
  BY DEF Inv, TypeOK, ConsumerFails
<1>4. QED
  BY <1>1, <1>2, <1>3, QuietStep DEF ConsumerFails

LEMMA RestartInv == Inv /\ Restart => Inv'
<1> SUFFICES ASSUME Inv, Restart PROVE Inv'
  OBVIOUS
<1> USE DEF tables, refunding
<1>1. TypeOK'
  BY BoundAssumption DEF Inv, TypeOK, Restart, Fault, PCs
<1>2. CreatorSound'
  BY DEF CreatorSound, Restart
<1>3. QED
  BY <1>1, <1>2, QuietStep DEF Restart

\* The consumer of bookings.
LEMMA LookupCreatedInv == Inv /\ LookupCreated => Inv'
<1> SUFFICES ASSUME Inv, LookupCreated PROVE Inv'
  OBVIOUS
<1> USE DEF tables, refunding
<1>1. TypeOK'
  BY DEF Inv, TypeOK, LookupCreated, Step, PCs, reading
<1>2. CreatorSound'
  BY DEF Inv, TypeOK, CreatorSound, LookupCreated, Step, PaymentsOf, reading
<1>3. \A w \in Refunders : pc'[w] = pc[w] \/ pc'[w] \notin {"lock", "commit"}
  BY DEF Inv, TypeOK, LookupCreated, Step
<1>4. QED
  BY <1>1, <1>2, <1>3, QuietStep DEF LookupCreated

\* A step that adds a payment leaves every transaction the row it holds.
LEMMA AppendStep ==
    ASSUME Inv, TypeOK', PaymentsSound', OnePendingPayment', CreatorSound',
           \A i \in DOMAIN payments : i \in DOMAIN payments' /\ payments'[i] = payments[i],
           UNCHANGED <<job, seen>>,
           \A w \in Refunders : pc'[w] = pc[w]
    PROVE  Inv'
<1>1. RefundersSound'
  BY DEF Inv, RefundersSound, HoldsRow, Remaining
<1>2. OneHolder'
  BY DEF Inv, OneHolder
<1>3. QED
  BY <1>1, <1>2 DEF Inv

LEMMA BilledEvent ==
    ASSUME Inv, pc["created"] = "insert"
    PROVE  event["created"].booking \in Bookings /\ event["created"].price \in Amounts
<1> DEFINE e == event["created"]
<1>1. e \in Event /\ e.price > 0
  BY DEF Inv, CreatorSound
<1>2. e.booking \in Bookings /\ e.price \in Prices
  BY <1>1 DEF Event
<1>3. e.price # 0
  BY <1>1, <1>2, AmountAssumption
<1>4. Prices \ {0} \subseteq Amounts
  BY AmountAssumption
<1>5. QED
  BY <1>2, <1>3, <1>4

LEMMA CreatePendingPaymentInv == Inv /\ CreatePendingPayment => Inv'
<1> SUFFICES ASSUME Inv, CreatePendingPayment PROVE Inv'
  OBVIOUS
<1> USE DEF tables, refunding
<1> DEFINE e == event["created"]
<1>1. pc["created"] = "insert"
  BY DEF CreatePendingPayment, Step
<1>2. e.booking \in Bookings /\ e.price \in Amounts
  BY <1>1, BilledEvent
<1>3. payments' = Append(payments, NewPayment(e.booking, e.price, "pending"))
  BY DEF CreatePendingPayment
<1>4. \A i \in DOMAIN payments :
          payments[i].booking = e.booking => payments[i].status # "pending"
  BY <1>1 DEF Inv, CreatorSound
<1> HIDE DEF e
<1>5. /\ payments' \in Seq(Row) /\ PaymentsSound' /\ OnePendingPayment'
      /\ \A i \in DOMAIN payments : i \in DOMAIN payments' /\ payments'[i] = payments[i]
  BY <1>2, <1>3, <1>4, AppendSound DEF Inv, TypeOK
<1>6. TypeOK'
  BY <1>5 DEF Inv, TypeOK, CreatePendingPayment, Step, PCs, reading
<1>7. CreatorSound'
  BY DEF Inv, TypeOK, CreatorSound, CreatePendingPayment, Step
<1>8. \A w \in Refunders : pc'[w] = pc[w]
  BY NameAssumption DEF Inv, TypeOK, CreatePendingPayment, Step
<1>9. QED
  BY <1>5, <1>6, <1>7, <1>8, AppendStep DEF CreatePendingPayment

LEMMA CreatePaymentInv == Inv /\ CreatePayment => Inv'
<1> SUFFICES ASSUME Inv, CreatePayment PROVE Inv'
  OBVIOUS
<1> USE DEF tables, refunding
<1>1. PICK b \in Bookings, a \in Amounts :
          payments' = Append(payments, NewPayment(b, a, "completed"))
  BY DEF CreatePayment
<1>2. /\ payments' \in Seq(Row) /\ PaymentsSound' /\ OnePendingPayment'
      /\ \A i \in DOMAIN payments : i \in DOMAIN payments' /\ payments'[i] = payments[i]
  BY <1>1, AppendSound DEF Inv, TypeOK
<1>3. TypeOK'
  BY <1>2 DEF Inv, TypeOK, CreatePayment, reading
<1>4. CreatorSound'
  <2>1. payments \in Seq(Row) /\ NewPayment(b, a, "completed").status = "completed"
    BY NewPaymentSound DEF Inv, TypeOK
  <2>2. \A i \in DOMAIN payments' :
            i \in DOMAIN payments \/ payments'[i].status = "completed"
    BY <1>1, <2>1
  <2>3. QED
    BY <1>2, <2>2 DEF Inv, CreatorSound, CreatePayment, reading
<1>5. QED
  BY <1>2, <1>3, <1>4, AppendStep DEF CreatePayment

\* The consumer of cancellations.
LEMMA LookupCancelledInv == Inv /\ LookupCancelled => Inv'
<1> SUFFICES ASSUME Inv, LookupCancelled PROVE Inv'
  OBVIOUS
<1> USE DEF tables, refunding
<1>1. PICK i \in DOMAIN payments :
          /\ Refundable(payments[i])
          /\ Step("cancelled", "lookup", "lock")
          /\ job' = [job EXCEPT !["cancelled"] =
                        [payment |-> i, amount |-> Remaining(payments[i])]]
          /\ UNCHANGED <<reading, tables, seen, faults>>
  BY DEF LookupCancelled
<1>2. payments \in Seq(Row) /\ payments[i] \in Row
  BY DEF Inv, TypeOK
<1>3. Remaining(payments[i]) \in Amounts
  <2> DEFINE p == payments[i]
  <2>1. p.amount \in Amounts /\ p.refunded \in Nat /\ p.amount - p.refunded > 0
    BY <1>1, <1>2 DEF Refundable, Remaining, Row
  <2>2. p.amount \in Nat
    BY <2>1, AmountAssumption
  <2>3. 1 .. p.amount \subseteq Amounts
    BY <2>1, AmountAssumption
  <2> HIDE DEF p
  <2>4. p.amount - p.refunded \in 1 .. p.amount
    BY <2>1, <2>2
  <2>5. QED
    BY <2>3, <2>4 DEF p, Remaining
<1>4. i \in Nat
  BY <1>2
<1>5. [payment |-> i, amount |-> Remaining(payments[i])] \in Refund
  BY <1>3, <1>4 DEF Refund
<1>6. TypeOK'
  BY <1>1, <1>5 DEF Inv, TypeOK, Step, PCs, reading
<1>7. CreatorSound'
  BY <1>1 DEF Inv, TypeOK, CreatorSound, Step, reading
<1>8. \A w \in Refunders : \/ pc'[w] = pc[w] /\ job'[w] = job[w]
                           \/ pc'[w] = "lock" /\ job'[w] \in Refund
  BY <1>1, <1>5 DEF Inv, TypeOK, Step
<1>9. QED
  BY <1>1, <1>6, <1>7, <1>8, QuietStep

LEMMA NothingToRefundInv == Inv /\ NothingToRefund => Inv'
<1> SUFFICES ASSUME Inv, NothingToRefund PROVE Inv'
  OBVIOUS
<1> USE DEF tables, refunding
<1>1. TypeOK'
  BY DEF Inv, TypeOK, NothingToRefund, Step, PCs, reading
<1>2. CreatorSound'
  BY DEF Inv, TypeOK, CreatorSound, NothingToRefund, Step, reading
<1>3. \A w \in Refunders : pc'[w] = pc[w] \/ pc'[w] \notin {"lock", "commit"}
  BY DEF Inv, TypeOK, NothingToRefund, Step
<1>4. QED
  BY <1>1, <1>2, <1>3, QuietStep DEF NothingToRefund

\* Refunds.
LEMMA CreateRefundInv ==
    ASSUME Inv, NEW h \in Handlers, CreateRefund(h)
    PROVE  Inv'
<1> USE DEF tables, refunding
<1>1. PICK i \in 1 .. MaxPayments, a \in Amounts :
          /\ Step(h, "idle", "lock")
          /\ job' = [job EXCEPT ![h] = [payment |-> i, amount |-> a]]
          /\ UNCHANGED <<reading, tables, seen, faults>>
  BY DEF CreateRefund
<1>2. i \in Nat
  BY BoundAssumption
<1>3. [payment |-> i, amount |-> a] \in Refund
  BY <1>2 DEF Refund
<1>4. TypeOK'
  BY <1>1, <1>3 DEF Inv, TypeOK, Step, PCs, reading
<1>5. CreatorSound'
  BY <1>1, NameAssumption DEF Inv, TypeOK, CreatorSound, Step, reading
<1>6. \A w \in Refunders : \/ pc'[w] = pc[w] /\ job'[w] = job[w]
                           \/ pc'[w] = "lock" /\ job'[w] \in Refund
  BY <1>1, <1>3 DEF Inv, TypeOK, Step
<1>7. QED
  BY <1>1, <1>4, <1>5, <1>6, QuietStep

LEMMA AfterAnswers ==
    ASSUME NEW w \in Refunders, NEW v \in Answers
    PROVE  After(w, v) \in PCs \ {"lookup", "insert", "lock", "commit"}
BY DEF After, Answers, PCs

\* The consumer of bookings makes no refund.
LEMMA CreatorElsewhere == "created" \notin Refunders
BY NameAssumption

LEMMA RefundFailsInv ==
    ASSUME Inv, NEW w \in Refunders, RefundFails(w)
    PROVE  Inv'
<1> USE DEF tables, refunding
<1>1. After(w, "internal") \in PCs \ {"lookup", "insert", "lock", "commit"}
  BY AfterAnswers DEF Answers
<1>2. pc' = [pc EXCEPT ![w] = After(w, "internal")]
  BY DEF RefundFails
<1>3. TypeOK'
  BY <1>1, <1>2, BoundAssumption DEF Inv, TypeOK, RefundFails, Fault, reading
<1>4. CreatorSound'
  BY <1>2, CreatorElsewhere DEF Inv, TypeOK, CreatorSound, RefundFails, reading
<1>5. \A v \in Refunders :
          \/ pc'[v] = pc[v] /\ seen'[v] = seen[v]
          \/ pc'[v] \notin {"lock", "commit"}
  BY <1>1, <1>2 DEF Inv, TypeOK, RefundFails
<1>6. QED
  BY <1>3, <1>4, <1>5, QuietStep DEF RefundFails

LEMMA RespondInv ==
    ASSUME Inv, NEW h \in Handlers, Respond(h)
    PROVE  Inv'
<1> USE DEF tables, refunding
<1>1. TypeOK'
  BY DEF Inv, TypeOK, Respond, PCs, reading
<1>2. CreatorSound'
  BY CreatorElsewhere DEF Inv, TypeOK, CreatorSound, Respond, reading
<1>3. \A v \in Refunders :
          \/ pc'[v] = pc[v] /\ job'[v] = job[v]
          \/ pc'[v] \notin {"lock", "commit"}
  BY DEF Inv, TypeOK, Respond
<1>4. QED
  BY <1>1, <1>2, <1>3, QuietStep DEF Respond

\* The row is free, so it is this transaction's alone, and the payment it
\* reads is the one in the table.
LEMMA LockPaymentInv ==
    ASSUME Inv, NEW w \in Refunders, LockPayment(w)
    PROVE  Inv'
<1> USE DEF tables, refunding
<1> DEFINE i == job[w].payment
           v == Verdict(i, job[w].amount)
           to == IF v = "commit" THEN v ELSE After(w, v)
<1>1. /\ pc[w] = "lock" /\ ~Locked(i) /\ job[w] \in Refund
      /\ pc' = [pc EXCEPT ![w] = to]
      /\ seen' = [seen EXCEPT ![w] = IF v = "commit" THEN payments[i] ELSE None]
      /\ UNCHANGED <<reading, tables, job, faults>>
  BY DEF LockPayment, Inv, RefundersSound
<1>2. v \in Answers \union {"commit"}
  BY DEF Verdict, Answers
<1>3. v = "commit" =>
          /\ i \in DOMAIN payments /\ payments[i].status = "completed"
          /\ ~(job[w].amount > Remaining(payments[i]))
  BY DEF Verdict
<1> HIDE DEF v
<1>4. to \in PCs \ {"lookup", "insert", "lock"} /\ (to = "commit" => v = "commit")
  BY <1>2, AfterAnswers DEF PCs
<1>5. CASE v # "commit"
  <2>1. to \notin {"lock", "commit"}
    BY <1>4, <1>5
  <2>2. TypeOK'
    BY <1>1, <1>4, <1>5 DEF Inv, TypeOK, reading
  <2>3. CreatorSound'
    BY <1>1, CreatorElsewhere DEF Inv, TypeOK, CreatorSound, reading
  <2>4. \A u \in Refunders :
            \/ pc'[u] = pc[u] /\ job'[u] = job[u] /\ seen'[u] = seen[u]
            \/ pc'[u] \notin {"lock", "commit"}
    BY <1>1, <2>1 DEF Inv, TypeOK
  <2>5. QED
    BY <1>1, <2>2, <2>3, <2>4, QuietStep
<1>6. CASE v = "commit"
  <2>1. payments[i] \in Row
    BY <1>3, <1>6 DEF Inv, TypeOK
  <2>2. TypeOK'
    BY <1>1, <1>4, <1>6, <2>1 DEF Inv, TypeOK, reading
  <2>3. CreatorSound'
    BY <1>1, CreatorElsewhere DEF Inv, TypeOK, CreatorSound, reading
  <2>4. pc'[w] = "commit" /\ seen'[w] = payments[i] /\ job'[w] = job[w]
    BY <1>1, <1>6 DEF Inv, TypeOK
  <2>5. \A u \in Refunders \ {w} :
            pc'[u] = pc[u] /\ job'[u] = job[u] /\ seen'[u] = seen[u]
    BY <1>1 DEF Inv, TypeOK
  <2>6. job[w].amount <= Remaining(payments[i])
    <3>1. payments[i].amount \in Nat /\ payments[i].refunded \in Nat /\ job[w].amount \in Nat
      BY <1>1, <2>1, AmountAssumption DEF Row, Refund
    <3>2. Remaining(payments[i]) \in Int
      BY <3>1 DEF Remaining
    <3>3. QED
      BY <1>3, <1>6, <3>1, <3>2
  <2>7. RefundersSound'
    BY <1>1, <1>3, <1>6, <2>4, <2>5, <2>6
       DEF Inv, RefundersSound, HoldsRow, Remaining
  <2>8. OneHolder'
    BY <1>1, <2>4, <2>5 DEF Inv, OneHolder, Locked
  <2>9. PaymentsSound' /\ OnePendingPayment'
    BY <1>1 DEF Inv, PaymentsSound, OnePendingPayment
  <2>10. QED
    BY <2>2, <2>3, <2>7, <2>8, <2>9 DEF Inv
<1>7. QED
  BY <1>5, <1>6

\* What a commit does to the tables: the row that was read is the row that is
\* there, and everybody else's stays.
LEMMA CommitSaves ==
    ASSUME Inv, NEW w \in Refunders, CommitRefund(w)
    PROVE  LET i == job[w].payment IN
           /\ i \in DOMAIN payments /\ job[w] \in Refund
           /\ payments' \in Seq(Row) /\ PaymentsSound' /\ OnePendingPayment'
           /\ DOMAIN payments' = DOMAIN payments
           /\ \A j \in DOMAIN payments : j # i => payments'[j] = payments[j]
           /\ payments[i].status = "completed"
           /\ payments'[i].booking = payments[i].booking
           /\ payments'[i].amount = payments[i].amount
           /\ payments'[i].refunded = payments[i].refunded + job[w].amount
           /\ payments'[i].status # "pending"
<1> DEFINE i == job[w].payment
           a == job[w].amount
<1>1. job[w] \in Refund /\ HoldsRow(w)
  BY DEF Inv, RefundersSound, CommitRefund, Step
<1>2. a \in Amounts
  BY <1>1 DEF Refund
<1>3. /\ i \in DOMAIN payments /\ payments[i].status = "completed"
      /\ a <= Remaining(payments[i])
  BY <1>1 DEF HoldsRow
<1>4. payments' = [payments EXCEPT ![i] = Refunded(payments[i], a)]
  BY <1>1 DEF CommitRefund, HoldsRow
<1>5. payments \in Seq(Row) /\ PaymentsSound /\ OnePendingPayment
  BY DEF Inv, TypeOK
<1> HIDE DEF i, a
<1>6. QED
  BY <1>1, <1>2, <1>3, <1>4, <1>5, SaveSound DEF i, a

LEMMA CommitRefundInv ==
    ASSUME Inv, NEW w \in Refunders, CommitRefund(w)
    PROVE  Inv'
<1> USE DEF refunding
<1> DEFINE i == job[w].payment
<1>1. /\ i \in DOMAIN payments /\ job[w] \in Refund
      /\ payments' \in Seq(Row) /\ PaymentsSound' /\ OnePendingPayment'
      /\ DOMAIN payments' = DOMAIN payments
      /\ \A j \in DOMAIN payments : j # i => payments'[j] = payments[j]
      /\ payments'[i].booking = payments[i].booking
      /\ payments'[i].status # "pending"
  BY CommitSaves
<1>2. /\ pc[w] = "commit" /\ pc' = [pc EXCEPT ![w] = After(w, "refunded")]
      /\ After(w, "refunded") \in PCs \ {"lookup", "insert", "lock", "commit"}
  BY AfterAnswers DEF CommitRefund, Step, Answers
<1>3. \A u \in Refunders \ {w} :
          pc'[u] = pc[u] /\ job'[u] = job[u] /\ seen'[u] = seen[u]
  BY <1>2 DEF Inv, TypeOK, CommitRefund
<1>4. TypeOK'
  <2>1. refunds' \in Seq(Refund)
    BY <1>1 DEF Inv, TypeOK, CommitRefund
  <2>2. pc' \in [Handlers \union Topics -> PCs]
    BY <1>2 DEF Inv, TypeOK
  <2>3. QED
    BY <1>1, <2>1, <2>2 DEF Inv, TypeOK, CommitRefund, reading
<1>5. pc'[w] \notin {"lock", "commit"}
  BY <1>2 DEF Inv, TypeOK
<1>6. RefundersSound'
  <2> SUFFICES ASSUME NEW u \in Refunders
               PROVE  /\ pc'[u] \in {"lock", "commit"} => job'[u] \in Refund
                      /\ pc'[u] = "commit" => HoldsRow(u)'
    BY DEF RefundersSound
  <2>1. CASE u = w
    BY <1>5, <2>1
  <2>2. CASE u # w
    <3>1. pc'[u] = "commit" => pc[u] = "commit" /\ job[u].payment # i
      BY <1>2, <1>3, <2>2 DEF Inv, OneHolder
    <3>2. QED
      BY <1>1, <1>3, <2>2, <3>1 DEF Inv, RefundersSound, HoldsRow, Remaining
  <2>3. QED
    BY <2>1, <2>2
<1>7. OneHolder'
  BY <1>3, <1>5 DEF Inv, OneHolder
<1>8. CreatorSound'
  BY <1>1, <1>2, CreatorElsewhere DEF Inv, TypeOK, CreatorSound, CommitRefund, reading
<1>9. QED
  BY <1>1, <1>4, <1>6, <1>7, <1>8 DEF Inv

(***************************************************************************)
(* The sum of a payment's refunds                                          *)
(***************************************************************************)
\* Induction over the naturals, for a set: what holds of 0 and of n + 1 with n
\* holds everywhere, or there were a least number it does not hold of.
LEMMA NatSetInduction ==
    ASSUME NEW S, 0 \in S, \A n \in Nat : n \in S => n + 1 \in S
    PROVE  \A n \in Nat : n \in S
<1> DEFINE T == Nat \ S
           R == OpToRel(<, Nat)
<1>1. \A x, y \in Nat : y < x => <<y, x>> \in R
  BY DEF OpToRel
<1>2. IsWellFoundedOn(R, Nat)
  BY NatLessThanWellFounded
<1> HIDE DEF R
<1>3. ASSUME T # {} PROVE FALSE
  <2>1. PICK x \in T : \A y \in T : ~(<<y, x>> \in R)
    BY <1>2, <1>3, WFMin
  <2>2. x - 1 \in Nat /\ x - 1 < x /\ x = (x - 1) + 1
    OBVIOUS
  <2>3. x - 1 \in T
    BY <2>2
  <2>4. QED
    BY <1>1, <2>1, <2>2, <2>3
<1>4. QED
  BY <1>3

Part(r, i) == IF r.payment = i THEN r.amount ELSE 0

\* t adds up the first n refunds of a table.
IsRun(t, table, i, n) ==
    t = [k \in 0 .. n |-> IF k = 0 THEN 0 ELSE t[k - 1] + Part(table[k], i)]

LEMMA RunEquations ==
    ASSUME NEW t, NEW table, NEW i, NEW n \in Nat, IsRun(t, table, i, n)
    PROVE  t[0] = 0 /\ \A k \in 1 .. n : t[k] = t[k - 1] + Part(table[k], i)
BY DEF IsRun

LEMMA RunExists ==
    ASSUME NEW table, NEW i
    PROVE  \A n \in Nat : \E t : IsRun(t, table, i, n)
<1> DEFINE S == {n \in Nat : \E t : IsRun(t, table, i, n)}
<1>1. 0 \in S
  <2>1. IsRun([k \in 0 .. 0 |-> 0], table, i, 0)
    BY DEF IsRun
  <2>2. QED
    BY <2>1
<1>2. ASSUME NEW n \in Nat, n \in S
      PROVE  n + 1 \in S
  <2>1. PICK t : IsRun(t, table, i, n)
    BY <1>2
  <2> DEFINE u == [k \in 0 .. n + 1 |->
                      IF k = n + 1 THEN t[n] + Part(table[n + 1], i) ELSE t[k]]
  <2>2. t[0] = 0 /\ \A k \in 1 .. n : t[k] = t[k - 1] + Part(table[k], i)
    BY <2>1, RunEquations
  <2>3. \A k \in 0 .. n + 1 :
            u[k] = IF k = 0 THEN 0 ELSE u[k - 1] + Part(table[k], i)
    <3> SUFFICES ASSUME NEW k \in 0 .. n + 1
                 PROVE  u[k] = IF k = 0 THEN 0 ELSE u[k - 1] + Part(table[k], i)
      OBVIOUS
    <3>1. CASE k = 0
      BY <2>2, <3>1
    <3>2. CASE k \in 1 .. n
      BY <2>2, <3>2
    <3>3. CASE k = n + 1
      BY <3>3
    <3>4. QED
      BY <3>1, <3>2, <3>3
  <2>4. u = [k \in 0 .. n + 1 |-> u[k]]
    OBVIOUS
  <2> HIDE DEF u
  <2>5. IsRun(u, table, i, n + 1)
    BY <2>3, <2>4 DEF IsRun
  <2>6. QED
    BY <2>5
<1> HIDE DEF S
<1>3. \A n \in Nat : n \in S
  BY <1>1, <1>2, NatSetInduction
<1>4. QED
  BY <1>3 DEF S

\* The recursive definition is met: the total is where such a run ends.
LEMMA TotalEndsRun ==
    ASSUME NEW table \in Seq(Refund), NEW i
    PROVE  \E t : IsRun(t, table, i, Len(table)) /\ TotalOf(table, i) = t[Len(table)]
<1>1. \E t : IsRun(t, table, i, Len(table))
  <2>1. Len(table) \in Nat
    OBVIOUS
  <2>2. QED
    BY <2>1, RunExists
<1>2. QED
  BY <1>1 DEF TotalOf, IsRun, Part

\* Runs over tables that begin alike begin alike, with natural numbers.
LEMMA RunsAgree ==
    ASSUME NEW table \in Seq(Refund), NEW longer, NEW i,
           NEW m \in Nat, Len(table) <= m,
           \A k \in 1 .. Len(table) : longer[k] = table[k],
           NEW t, IsRun(t, table, i, Len(table)),
           NEW u, IsRun(u, longer, i, m)
    PROVE  u[Len(table)] = t[Len(table)] /\ t[Len(table)] \in Nat
<1> DEFINE S == {k \in Nat : k <= Len(table) => u[k] = t[k] /\ t[k] \in Nat}
<1>0. Len(table) \in Nat
  OBVIOUS
<1>1. /\ t[0] = 0 /\ \A k \in 1 .. Len(table) : t[k] = t[k - 1] + Part(table[k], i)
      /\ u[0] = 0 /\ \A k \in 1 .. m : u[k] = u[k - 1] + Part(longer[k], i)
  BY <1>0, RunEquations
<1>2. 0 \in S
  BY <1>1
<1>3. ASSUME NEW k \in Nat, k \in S
      PROVE  k + 1 \in S
  <2> SUFFICES ASSUME k + 1 <= Len(table)
               PROVE  u[k + 1] = t[k + 1] /\ t[k + 1] \in Nat
    OBVIOUS
  <2>1. k + 1 \in 1 .. Len(table) /\ k + 1 \in 1 .. m /\ (k + 1) - 1 = k
    BY <1>0
  <2>2. u[k] = t[k] /\ t[k] \in Nat
    BY <1>0, <1>3, <2>1
  <2>3. table[k + 1] \in Refund
    BY <2>1
  <2>4. Part(table[k + 1], i) \in Nat
    BY <2>3, AmountAssumption DEF Part, Refund
  <2>5. t[k + 1] = t[k] + Part(table[k + 1], i)
    BY <1>1, <2>1
  <2>6. u[k + 1] = u[k] + Part(table[k + 1], i)
    BY <1>1, <2>1
  <2>7. QED
    BY <2>2, <2>4, <2>5, <2>6
<1> HIDE DEF S
<1>4. Len(table) \in S
  BY <1>0, <1>2, <1>3, NatSetInduction
<1>5. QED
  BY <1>0, <1>4 DEF S

\* What the total of a table is: nothing for an empty one, and one refund more
\* adds its amount to the total of its payment.
LEMMA TotalOfEmpty ==
    ASSUME NEW i
    PROVE  TotalOf(<< >>, i) = 0
<1>1. << >> \in Seq(Refund) /\ Len(<< >>) = 0
  OBVIOUS
<1>2. PICK t : IsRun(t, << >>, i, 0) /\ TotalOf(<< >>, i) = t[0]
  BY <1>1, TotalEndsRun
<1>3. QED
  BY <1>2, RunEquations

LEMMA TotalIsNatural ==
    ASSUME NEW table \in Seq(Refund), NEW i
    PROVE  TotalOf(table, i) \in Nat
<1>1. PICK t : IsRun(t, table, i, Len(table)) /\ TotalOf(table, i) = t[Len(table)]
  BY TotalEndsRun
<1>2. Len(table) \in Nat /\ Len(table) <= Len(table)
  OBVIOUS
<1>3. QED
  BY <1>1, <1>2, RunsAgree

LEMMA TotalOfAppend ==
    ASSUME NEW table \in Seq(Refund), NEW r \in Refund, NEW i
    PROVE  TotalOf(Append(table, r), i) = TotalOf(table, i) + Part(r, i)
<1> DEFINE longer == Append(table, r)
           n == Len(table)
<1>1. /\ longer \in Seq(Refund) /\ n \in Nat /\ Len(longer) = n + 1
      /\ longer[n + 1] = r /\ \A k \in 1 .. n : longer[k] = table[k]
  OBVIOUS
<1> HIDE DEF longer
<1>2. PICK t : IsRun(t, table, i, n) /\ TotalOf(table, i) = t[n]
  BY TotalEndsRun
<1>3. PICK u : IsRun(u, longer, i, n + 1) /\ TotalOf(longer, i) = u[n + 1]
  BY <1>1, TotalEndsRun
<1>4. u[n] = t[n]
  <2>1. n + 1 \in Nat /\ n <= n + 1
    BY <1>1
  <2>2. QED
    BY <1>1, <1>2, <1>3, <2>1, RunsAgree
<1>5. n + 1 \in 1 .. n + 1 /\ (n + 1) - 1 = n /\ n + 1 \in Nat
  BY <1>1
<1>6. u[n + 1] = u[n] + Part(r, i)
  BY <1>1, <1>3, <1>5, RunEquations
<1>7. QED
  BY <1>2, <1>3, <1>4, <1>6 DEF longer

(***************************************************************************)
(* The refunds table and the payments                                      *)
(***************************************************************************)
\* What went back of a payment is the total of its refunds, and there is no
\* refund of a payment that was not made.
Balance ==
    \A i \in Nat :
        RefundedTotal(i) = IF i \in DOMAIN payments THEN payments[i].refunded ELSE 0

LEMMA BalanceInit == Init => Balance
BY TotalOfEmpty DEF Init, Balance, RefundedTotal

\* The only steps that touch either table.
LEMMA TableSteps ==
    ASSUME Inv, [Next]_vars
    PROVE  \/ UNCHANGED tables
           \/ /\ UNCHANGED refunds
              /\ \E b \in Bookings, a \in Amounts, s \in {"pending", "completed"} :
                     payments' = Append(payments, NewPayment(b, a, s))
           \/ \E w \in Refunders : CommitRefund(w)
<1> USE DEF tables, refunding
<1>1. CASE CreatePayment
  BY <1>1 DEF CreatePayment
<1>2. CASE CreatePendingPayment
  BY <1>2, BilledEvent DEF CreatePendingPayment, Step
<1>3. \/ UNCHANGED tables \/ CreatePendingPayment \/ CreatePayment
      \/ \E w \in Refunders : CommitRefund(w)
  BY DEF Next, Serve, vars, Announce, Consume, ReadMessage, LookupCreated,
         LookupCancelled, NothingToRefund, ReadFails, ConsumerFails,
         CreateRefund, Respond, MakeRefund, LockPayment, RefundFails, Restart
<1>4. QED
  BY <1>1, <1>2, <1>3

\* A payment that is entered has no refunds yet.
LEMMA EnteredBalances ==
    ASSUME Inv, Balance, UNCHANGED refunds,
           NEW b \in Bookings, NEW a \in Amounts, NEW s \in {"pending", "completed"},
           payments' = Append(payments, NewPayment(b, a, s))
    PROVE  Balance'
<1> DEFINE r == NewPayment(b, a, s)
<1>1. r \in Row /\ r.refunded = 0
  BY NewPaymentSound
<1> HIDE DEF r
<1>2. payments' = Append(payments, r) /\ payments \in Seq(Row)
  BY DEF r, Inv, TypeOK
<1>3. /\ DOMAIN payments' = DOMAIN payments \union {Len(payments) + 1}
      /\ \A i \in DOMAIN payments : payments'[i] = payments[i]
      /\ payments'[Len(payments) + 1] = r
      /\ Len(payments) + 1 \notin DOMAIN payments
  BY <1>1, <1>2
<1>4. \A i \in Nat : RefundedTotal(i)' = RefundedTotal(i)
  BY DEF RefundedTotal
<1> QED
  BY <1>1, <1>3, <1>4 DEF Balance

\* A refund is inserted together with the payment it adds to.
LEMMA CommitBalances ==
    ASSUME Inv, Balance, NEW w \in Refunders, CommitRefund(w)
    PROVE  Balance'
<1> DEFINE i == job[w].payment
           a == job[w].amount
<1>1. /\ i \in DOMAIN payments /\ job[w] \in Refund
      /\ DOMAIN payments' = DOMAIN payments
      /\ \A j \in DOMAIN payments : j # i => payments'[j] = payments[j]
      /\ payments'[i].refunded = payments[i].refunded + a
  BY CommitSaves
<1>2. refunds' = Append(refunds, job[w]) /\ refunds \in Seq(Refund)
  BY DEF CommitRefund, Inv, TypeOK
<1>3. \A j \in Nat : RefundedTotal(j)' = RefundedTotal(j) + Part(job[w], j)
  BY <1>1, <1>2, TotalOfAppend DEF RefundedTotal
<1>4. \A j \in Nat : RefundedTotal(j) \in Nat
  BY <1>2, TotalIsNatural DEF RefundedTotal
<1>5. ASSUME NEW j \in Nat
      PROVE  RefundedTotal(j)'
             = IF j \in DOMAIN payments' THEN payments'[j].refunded ELSE 0
  <2>1. RefundedTotal(j) = IF j \in DOMAIN payments THEN payments[j].refunded ELSE 0
    BY DEF Balance
  <2>2. CASE j = i
    BY <1>1, <1>3, <2>1, <2>2 DEF Part
  <2>3. CASE j # i
    <3>1. Part(job[w], j) = 0
      BY <2>3 DEF Part
    <3>2. RefundedTotal(j)' = RefundedTotal(j)
      BY <1>3, <1>4, <3>1
    <3> HIDE DEF i
    <3>3. QED
      BY <1>1, <2>1, <2>3, <3>2
  <2>4. QED
    BY <2>2, <2>3
<1>6. QED
  BY <1>5 DEF Balance

LEMMA BalanceNext == Inv /\ Balance /\ [Next]_vars => Balance'
<1> SUFFICES ASSUME Inv, Balance, [Next]_vars PROVE Balance'
  OBVIOUS
<1>1. CASE UNCHANGED tables
  BY <1>1 DEF Balance, RefundedTotal, tables
<1>2. QED
  BY <1>1, TableSteps, EnteredBalances, CommitBalances

(***************************************************************************)
(* The theorems                                                            *)
(***************************************************************************)
LEMMA NextInv == Inv /\ [Next]_vars => Inv'
<1> SUFFICES ASSUME Inv, [Next]_vars PROVE Inv'
  OBVIOUS
<1>1. CASE Announce
  BY <1>1, AnnounceInv
<1>2. CASE Consume
  BY <1>2, ReadMessageInv, LookupCreatedInv, CreatePendingPaymentInv,
     LookupCancelledInv, NothingToRefundInv DEF Consume
<1>3. CASE \E t \in Topics : ReadFails(t) \/ ConsumerFails(t)
  BY <1>3, ReadFailsInv, ConsumerFailsInv
<1>4. CASE CreatePayment
  BY <1>4, CreatePaymentInv
<1>5. CASE \E h \in Handlers : CreateRefund(h) \/ Respond(h)
  BY <1>5, CreateRefundInv, RespondInv
<1>6. CASE \E w \in Refunders : MakeRefund(w) \/ RefundFails(w)
  BY <1>6, LockPaymentInv, CommitRefundInv, RefundFailsInv DEF MakeRefund
<1>7. CASE Restart
  BY <1>7, RestartInv
<1>8. CASE UNCHANGED vars
  <2>1. TypeOK' /\ CreatorSound'
    BY <1>8 DEF Inv, TypeOK, CreatorSound, vars
  <2>2. QED
    BY <1>8, <2>1, QuietStep DEF vars
<1>9. QED
  BY <1>1, <1>2, <1>3, <1>4, <1>5, <1>6, <1>7, <1>8 DEF Next, Serve

\* The inductive invariant: types, sound payments, and what each worker relies
\* on between two of its statements.
THEOREM InvIsInvariant == Spec => []Inv
<1>1. Init => Inv
  BY InitInv
<1>2. Inv /\ [Next]_vars => Inv'
  BY NextInv
<1>3. QED
  BY <1>1, <1>2, PTL DEF Spec

\* Every variable of payment-service keeps its type.
THEOREM PaymentTypeCorrect == Spec => []TypeOK
<1>1. Inv => TypeOK
  BY DEF Inv
<1>2. QED
  BY <1>1, InvIsInvariant, PTL

\* Whatever refunds are asked for at the same time, by requests and by the
\* consumer of cancellations, no payment gives back more than it took.
THEOREM PaymentsAreSound == Spec => []PaymentsSound
<1>1. Inv => PaymentsSound
  BY DEF Inv
<1>2. QED
  BY <1>1, InvIsInvariant, PTL

\* However often a booking's event is sent or read again, the booking has at
\* most one pending payment.
THEOREM PendingIsUnique == Spec => []OnePendingPayment
<1>1. Inv => OnePendingPayment
  BY DEF Inv
<1>2. QED
  BY <1>1, InvIsInvariant, PTL

LEMMA RefundedIsNatural ==
    Inv => \A i \in DOMAIN payments : payments[i].refunded \in Nat
<1>1. \A p \in Row : p.refunded \in Nat
  BY DEF Row
<1>2. Inv => \A i \in DOMAIN payments : payments[i] \in Row
  BY DEF Inv, TypeOK
<1>3. QED
  BY <1>1, <1>2

\* No step takes a payment away, changes what it is for, takes a refund back
\* or touches a payment that was refunded.
THEOREM PaymentsAreKept == Spec => PaymentsOnlyGrow
<1> DEFINE Grows ==
      \A i \in DOMAIN payments :
          /\ i \in DOMAIN payments'
          /\ payments'[i].booking = payments[i].booking
          /\ payments'[i].amount = payments[i].amount
          /\ payments'[i].refunded >= payments[i].refunded
          /\ payments[i].status = "refunded" => payments'[i] = payments[i]
<1>1. ASSUME Inv, \A i \in DOMAIN payments :
                      i \in DOMAIN payments' /\ payments'[i] = payments[i]
      PROVE  Grows
  <2>1. \A i \in DOMAIN payments : payments[i].refunded \in Nat
    BY <1>1, RefundedIsNatural
  <2>2. QED
    BY <1>1, <2>1
<1>2. ASSUME Inv, [Next]_vars
      PROVE  Grows
  <2> USE <1>2 DEF tables, refunding
  <2>1. CASE UNCHANGED payments
    BY <1>1, <2>1
  <2>2. CASE CreatePendingPayment \/ CreatePayment
    <3>1. PICK r : payments' = Append(payments, r)
      BY <2>2 DEF CreatePendingPayment, CreatePayment
    <3>2. payments \in Seq(Row)
      BY DEF Inv, TypeOK
    <3>3. \A i \in DOMAIN payments : i \in DOMAIN payments' /\ payments'[i] = payments[i]
      BY <3>1, <3>2
    <3>4. QED
      BY <1>1, <3>3
  <2>3. ASSUME NEW w \in Refunders, CommitRefund(w)
        PROVE  Grows
    <3> DEFINE i == job[w].payment
    <3>1. /\ DOMAIN payments' = DOMAIN payments
          /\ \A j \in DOMAIN payments : j # i => payments'[j] = payments[j]
          /\ payments[i].status = "completed"
          /\ payments'[i].booking = payments[i].booking
          /\ payments'[i].amount = payments[i].amount
          /\ payments'[i].refunded = payments[i].refunded + job[w].amount
          /\ i \in DOMAIN payments /\ job[w] \in Refund
      BY <2>3, CommitSaves
    <3>2. \A j \in DOMAIN payments : payments[j].refunded \in Nat
      BY RefundedIsNatural
    <3>3. job[w].amount \in Nat
      BY <3>1, AmountAssumption DEF Refund
    <3> HIDE DEF i
    <3>4. payments'[i].refunded >= payments[i].refunded
      BY <3>1, <3>2, <3>3
    <3>5. QED
      BY <3>1, <3>2, <3>4
  <2>4. \/ UNCHANGED payments
        \/ CreatePendingPayment \/ CreatePayment
        \/ \E w \in Refunders : CommitRefund(w)
    BY DEF Next, Serve, vars, Announce, Consume, ReadMessage, LookupCreated,
           LookupCancelled, NothingToRefund, ReadFails, ConsumerFails,
           CreateRefund, Respond, MakeRefund, LockPayment, RefundFails, Restart
  <2>5. QED
    BY <2>1, <2>2, <2>3, <2>4
<1>3. Inv /\ [Next]_vars => [Grows]_vars
  BY <1>2
<1>4. QED
  BY <1>3, InvIsInvariant, PTL DEF Spec, PaymentsOnlyGrow
\* The inductive invariant of the balance: it needs the row lock, which Inv
\* tells of, for the payment a transaction saves to be the one it read.
THEOREM BalanceIsInvariant == Spec => [](Inv /\ Balance)
<1>1. Init => Inv /\ Balance
  BY InitInv, BalanceInit
<1>2. Inv /\ Balance /\ [Next]_vars => (Inv /\ Balance)'
  BY NextInv, BalanceNext
<1>3. QED
  BY <1>1, <1>2, PTL DEF Spec

\* Whatever refunds are made at the same time, none is lost: the refunds of a
\* payment come to what the payment says was refunded.
THEOREM RefundsAreBalanced == Spec => []RefundsBalance
<1>1. Inv /\ Balance => RefundsBalance
  <2>1. Inv => \A i \in DOMAIN payments : i \in Nat
    BY DEF Inv, TypeOK
  <2>2. QED
    BY <2>1 DEF Balance, RefundsBalance
<1>2. QED
  BY <1>1, BalanceIsInvariant, PTL

\* The ledger when the two tables agree: the payments alone tell it.
EntriesOf ==
    [i \in DOMAIN payments |->
        [amount |-> payments[i].amount,
         paid |-> payments[i].status # "pending",
         back |-> payments[i].refunded]]

LEMMA LedgerOfBalance ==
    Balance /\ payments \in Seq(Row) => LedgerView = EntriesOf
<1> SUFFICES ASSUME Balance, payments \in Seq(Row)
             PROVE  \A i \in DOMAIN payments : RefundedTotal(i) = payments[i].refunded
  BY DEF LedgerView, EntriesOf
<1>1. \A i \in DOMAIN payments : i \in Nat
  OBVIOUS
<1>2. QED
  BY <1>1 DEF Balance

\* Entering a payment appends its entry.
LEMMA EnterStep ==
    ASSUME Inv, Balance, Balance', payments' \in Seq(Row),
           NEW b \in Bookings, NEW a \in Amounts, NEW s \in {"pending", "completed"},
           payments' = Append(payments, NewPayment(b, a, s))
    PROVE  LedgerView' = Append(LedgerView, [amount |-> a, paid |-> s # "pending", back |-> 0])
<1> DEFINE r == NewPayment(b, a, s)
           e == [amount |-> a, paid |-> s # "pending", back |-> 0]
           EntryOf(p) == [amount |-> p.amount, paid |-> p.status # "pending",
                          back |-> p.refunded]
<1>1. r \in Row /\ r.amount = a /\ r.refunded = 0 /\ r.status = s
  BY NewPaymentSound
<1>2. EntryOf(r) = e
  BY <1>1
<1> HIDE DEF r, e
<1>3. payments' = Append(payments, r) /\ payments \in Seq(Row)
  BY DEF r, Inv, TypeOK
<1>4. /\ LedgerView = [i \in 1 .. Len(payments) |-> EntryOf(payments[i])]
      /\ LedgerView' = [i \in 1 .. Len(payments) + 1 |-> EntryOf(payments'[i])]
  <2>1. DOMAIN payments = 1 .. Len(payments) /\ DOMAIN payments' = 1 .. Len(payments) + 1
    BY <1>1, <1>3
  <2>2. (Balance /\ payments \in Seq(Row) => LedgerView = EntriesOf)'
    BY LedgerOfBalance, PTL
  <2>3. QED
    BY <1>3, <2>1, <2>2, LedgerOfBalance DEF EntriesOf
<1> HIDE DEF EntryOf
<1>5. /\ \A i \in 1 .. Len(payments) : payments'[i] = payments[i]
      /\ payments'[Len(payments) + 1] = r
      /\ Len(payments) \in Nat
  BY <1>1, <1>3
<1>6. Len(LedgerView) = Len(payments)
  BY <1>4, <1>5
<1>7. LedgerView' = [i \in 1 .. Len(LedgerView) + 1 |->
                        IF i = Len(LedgerView) + 1 THEN e ELSE LedgerView[i]]
  <2>1. \A i \in 1 .. Len(payments) + 1 :
            EntryOf(payments'[i])
            = IF i = Len(payments) + 1 THEN e ELSE LedgerView[i]
    BY <1>2, <1>4, <1>5
  <2>2. QED
    BY <1>4, <1>6, <2>1
<1>8. QED
  BY <1>7 DEF e

\* A refund pays back its amount, of a payment that was made and within what
\* is left of it.
LEMMA PayBackStep ==
    ASSUME Inv, Balance, Balance', payments' \in Seq(Row),
           NEW w \in Refunders, CommitRefund(w)
    PROVE  LET i == job[w].payment
               a == job[w].amount
           IN  /\ i \in DOMAIN LedgerView /\ a \in Amounts
               /\ LedgerView[i].paid
               /\ LedgerView[i].back + a <= LedgerView[i].amount
               /\ LedgerView' = [LedgerView EXCEPT ![i].back = @ + a]
<1> DEFINE i == job[w].payment
           a == job[w].amount
           EntryOf(p) == [amount |-> p.amount, paid |-> p.status # "pending",
                          back |-> p.refunded]
<1>1. /\ i \in DOMAIN payments /\ job[w] \in Refund
      /\ DOMAIN payments' = DOMAIN payments
      /\ \A j \in DOMAIN payments : j # i => payments'[j] = payments[j]
      /\ payments[i].status = "completed"
      /\ payments'[i].amount = payments[i].amount
      /\ payments'[i].refunded = payments[i].refunded + a
      /\ payments'[i].status # "pending"
  BY CommitSaves
<1>2. a \in Amounts /\ a \in Nat
  BY <1>1, AmountAssumption DEF Refund
<1>3. payments'[i].refunded <= payments'[i].amount
  BY <1>1, NextInv, CommitSaves DEF PaymentsSound
<1> HIDE DEF i, a
<1>4. payments \in Seq(Row)
  BY DEF Inv, TypeOK
<1>5. /\ LedgerView = [j \in DOMAIN payments |-> EntryOf(payments[j])]
      /\ LedgerView' = [j \in DOMAIN payments |-> EntryOf(payments'[j])]
  <2>1. (Balance /\ payments \in Seq(Row) => LedgerView = EntriesOf)'
    BY LedgerOfBalance, PTL
  <2>2. QED
    BY <1>1, <1>4, <2>1, LedgerOfBalance DEF EntriesOf
<1>6. EntryOf(payments'[i]) = [EntryOf(payments[i]) EXCEPT !.back = @ + a]
  BY <1>1
<1>7. /\ LedgerView[i].paid /\ LedgerView[i].back + a <= LedgerView[i].amount
  BY <1>1, <1>3, <1>5
<1> HIDE DEF EntryOf
<1>8. LedgerView' = [LedgerView EXCEPT ![i] = [EntryOf(payments[i]) EXCEPT !.back = @ + a]]
  BY <1>1, <1>5, <1>6
<1>9. LedgerView' = [LedgerView EXCEPT ![i].back = @ + a]
  BY <1>1, <1>5, <1>8
<1>10. QED
  BY <1>1, <1>2, <1>5, <1>7, <1>9 DEF i, a

\* payment-service keeps a refund ledger: every step enters a payment, pays
\* one back within what it took, or leaves the ledger as it is.
THEOREM LedgerIsRefined == Spec => LedgerRefined
<1> USE DEF Ledger!Enter, Ledger!PayBack, Ledger!Next
<1>1. Init => Ledger!Init
  BY DEF Init, Ledger!Init, LedgerView
<1>2. ASSUME Inv, Inv', Balance, Balance', [Next]_vars
      PROVE  [Ledger!Next]_LedgerView
  <2>1. payments' \in Seq(Row)
    BY <1>2 DEF Inv, TypeOK
  <2>2. CASE UNCHANGED tables
    BY <2>2 DEF LedgerView, RefundedTotal, tables
  <2>3. ASSUME NEW b \in Bookings, NEW a \in Amounts, NEW s \in {"pending", "completed"},
               payments' = Append(payments, NewPayment(b, a, s))
        PROVE  Ledger!Next
    <3>1. LedgerView' = Append(LedgerView, [amount |-> a, paid |-> s # "pending", back |-> 0])
      BY <1>2, <2>1, <2>3, EnterStep
    <3>2. (s # "pending") \in BOOLEAN
      OBVIOUS
    <3>3. QED
      BY <3>1, <3>2
  <2>4. ASSUME NEW w \in Refunders, CommitRefund(w)
        PROVE  Ledger!Next
    <3>1. job[w].payment \in DOMAIN LedgerView /\ job[w].amount \in Amounts
      BY <1>2, <2>1, <2>4, PayBackStep
    <3>2. Ledger!PayBack(job[w].payment, job[w].amount)
      BY <1>2, <2>1, <2>4, PayBackStep
    <3>3. QED
      BY <3>1, <3>2
  <2>5. QED
    BY <1>2, <2>2, <2>3, <2>4, TableSteps
<1>3. QED
  BY <1>1, <1>2, BalanceIsInvariant, PTL DEF Spec, LedgerRefined, Ledger!Spec
===============================================================================
