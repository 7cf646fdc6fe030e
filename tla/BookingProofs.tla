---------------------------- MODULE BookingProofs ----------------------------
(***************************************************************************)
(* reservation-service and payment-service together, for any number of     *)
(* handlers, bookings and messages: what the one announces is what the     *)
(* other is ready for, and what the other does follows from it.            *)
(***************************************************************************)
EXTENDS Booking, ReservationSerialProofs, SequenceTheorems

\* What is proved of Payment, for the instance of it that runs here.
PP == INSTANCE PaymentProofs WITH
          Handlers <- RefundHandlers, Bookings <- BookingIds, pc <- work,
          log <- [t \in {"created", "cancelled"} |-> Decoded(t)]

USE DEF Step, locals, topics, P!Topics, P!Refunders

\* The database of payment-service takes any whole amount.
AllPrices == Prices = Nat

LEMMA ReservationRuns == BookingSpec => Spec
<1>1. BookingInit => Init
  BY DEF BookingInit
<1>2. [BookingNext]_bookingVars => [Next]_vars
  BY DEF BookingNext, bookingVars, ReservationStep, PaymentStep, vars
<1>3. QED
  BY <1>1, <1>2, PTL DEF BookingSpec, Spec

(***************************************************************************)
(* Decoding                                                                *)
(***************************************************************************)
Mapped(f, s) == [i \in DOMAIN s |-> f[s[i]]]

Copies(e, n) == [i \in 1 .. n |-> e]

\* What is decoded of a topic grows as the topic does.
LEMMA MappedPublished ==
    ASSUME NEW S, NEW f, NEW s \in Seq(S), NEW e \in S, NEW n \in Nat
    PROVE  /\ Len(Mapped(f, s)) = Len(s)
           /\ Mapped(f, Published(s, e, n)) = Mapped(f, s) \o Copies(f[e], n)
<1> DEFINE T == {f[x] : x \in S}
           m == Mapped(f, s)
           c == Copies(f[e], n)
           u == Published(s, e, n)
           t == [i \in 1 .. n |-> e]
<1>1. s \in Seq(S) /\ Len(s) \in Nat /\ DOMAIN s = 1 .. Len(s) /\ \A i \in DOMAIN s : s[i] \in S
  OBVIOUS
<1>2. m \in Seq(T) /\ Len(m) = Len(s) /\ \A i \in 1 .. Len(s) : m[i] = f[s[i]]
  BY <1>1 DEF Mapped
<1>3. c \in Seq(T) /\ Len(c) = n /\ \A i \in 1 .. n : c[i] = f[e]
  BY DEF Copies
<1>4. t \in Seq(S) /\ Len(t) = n /\ \A i \in 1 .. n : t[i] = e
  OBVIOUS
<1>5. u = s \o t
  BY DEF Published
<1> HIDE DEF T, m, c, t, u
<1>6. /\ DOMAIN u = 1 .. Len(s) + n
      /\ \A i \in 1 .. Len(s) + n : u[i] = IF i <= Len(s) THEN s[i] ELSE t[i - Len(s)]
  <2>1. /\ Len(u) = Len(s) + Len(t) /\ u \in Seq(S)
        /\ \A i \in 1 .. Len(s) + Len(t) :
               u[i] = IF i <= Len(s) THEN s[i] ELSE t[i - Len(s)]
    BY <1>1, <1>4, <1>5, ConcatProperties
  <2>2. QED
    BY <1>4, <2>1
<1>7. /\ m \o c \in Seq(T) /\ Len(m \o c) = Len(s) + n /\ DOMAIN (m \o c) = 1 .. Len(s) + n
      /\ \A i \in 1 .. Len(s) + n : (m \o c)[i] = IF i <= Len(s) THEN m[i] ELSE c[i - Len(s)]
  <2>1. m \in Seq(T) /\ c \in Seq(T) /\ Len(m) = Len(s) /\ Len(c) = n
    BY <1>2, <1>3
  <2>2. /\ m \o c \in Seq(T) /\ Len(m \o c) = Len(m) + Len(c)
        /\ \A i \in 1 .. Len(m) + Len(c) :
               (m \o c)[i] = IF i <= Len(m) THEN m[i] ELSE c[i - Len(m)]
    BY <2>1, ConcatProperties
  <2>3. QED
    BY <2>1, <2>2
<1>8. ASSUME NEW i \in 1 .. Len(s) + n PROVE f[u[i]] = (m \o c)[i]
  <2>1. CASE i <= Len(s)
    BY <1>1, <1>2, <1>6, <1>7, <2>1
  <2>2. CASE ~(i <= Len(s))
    <3>1. i - Len(s) \in 1 .. n
      BY <1>1, <2>2
    <3>2. QED
      BY <1>3, <1>4, <1>6, <1>7, <2>2, <3>1
  <2>3. QED
    BY <2>1, <2>2
<1>9. Mapped(f, u) = m \o c
  <2>1. \A g \in Seq(T) : g = [i \in 1 .. Len(g) |-> g[i]]
    OBVIOUS
  <2>2. m \o c = [i \in 1 .. Len(s) + n |-> (m \o c)[i]]
    BY <1>7, <2>1
  <2>3. QED
    BY <1>6, <1>8, <2>2 DEF Mapped
<1>10. QED
  BY <1>2, <1>9 DEF m, c, u

LEMMA RoundedIsNatural == ASSUME NEW p \in Nat PROVE Rounded(p) \in Nat
BY LengthAssumption DEF Rounded

Decode ==
    [created   |-> [e \in CreatedEvent |-> [booking |-> e.booking, price |-> Rounded(e.price)]],
     cancelled |-> [b \in BookingIds |-> [booking |-> b, price |-> 0]]]

LEMMA DecodedIsMapped ==
    ASSUME NEW s \in Seq(CreatedEvent), NEW c \in Seq(BookingIds)
    PROVE  /\ [i \in DOMAIN s |-> [booking |-> s[i].booking, price |-> Rounded(s[i].price)]]
                  = Mapped(Decode.created, s)
           /\ [i \in DOMAIN c |-> [booking |-> c[i], price |-> 0]] = Mapped(Decode.cancelled, c)
<1>1. (\A i \in DOMAIN s : s[i] \in CreatedEvent) /\ \A i \in DOMAIN c : c[i] \in BookingIds
  OBVIOUS
<1>2. QED
  BY <1>1 DEF Mapped, Decode

Log == [t \in {"created", "cancelled"} |-> Decoded(t)]

\* The log of Payment, read off the two topics.
LEMMA LogIsMapped ==
    ASSUME createdTopic \in Seq(CreatedEvent), cancelledTopic \in Seq(BookingIds)
    PROVE  /\ Log["created"] = Mapped(Decode.created, createdTopic)
           /\ Log["cancelled"] = Mapped(Decode.cancelled, cancelledTopic)
           /\ Log = [t \in {"created", "cancelled"} |->
                         IF t = "created" THEN Mapped(Decode.created, createdTopic)
                         ELSE Mapped(Decode.cancelled, cancelledTopic)]
BY DecodedIsMapped DEF Log, Decoded

LEMMA NothingPublished ==
    ASSUME NEW S, NEW s \in Seq(S), NEW e PROVE Published(s, e, 0) = s
<1>1. [i \in 1 .. 0 |-> e] = << >>
  OBVIOUS
<1>2. QED
  BY <1>1, ConcatEmptySeq DEF Published

(***************************************************************************)
(* Payment's environment                                                   *)
(***************************************************************************)
LEMMA CreatedIsAnnounced ==
    ASSUME AllPrices, Inv, Inv', UNCHANGED paymentVars, NEW h \in Handlers, PublishCreated(h)
    PROVE  P!Announce \/ UNCHANGED P!vars
<1> DEFINE e == [booking |-> bid[h], price |-> mem[h].price]
           d == [booking |-> bid[h], price |-> Rounded(mem[h].price)]
<1>1. PICK o \in PublishOutcomes(createdTopic) :
          /\ pc[h] = "c_publish" /\ cancelledTopic' = cancelledTopic
          /\ createdTopic' = Published(createdTopic, e, o.copies)
  BY DEF PublishCreated
<1>2. o.copies \in 0 .. MaxCopies /\ Len(createdTopic) + o.copies <= MaxEvents
  BY DEF PublishOutcomes
<1>3. e \in CreatedEvent /\ Decode.created[e] = d /\ d \in P!Event
  <2>1. bid[h] \in BookingIds /\ mem[h].price \in Nat
    BY <1>1 DEF Inv, TypeOK, Equipped, Announcing, Row
  <2>2. QED
    BY <2>1, RoundedIsNatural DEF Decode, CreatedEvent, P!Event, AllPrices
<1>4. /\ createdTopic \in Seq(CreatedEvent) /\ cancelledTopic \in Seq(BookingIds)
      /\ createdTopic' \in Seq(CreatedEvent) /\ cancelledTopic' \in Seq(BookingIds)
  BY DEF Inv, TypeOK
<1>5. CASE o.copies = 0
  <2>1. createdTopic' = createdTopic
    BY <1>1, <1>4, <1>5, NothingPublished
  <2>2. QED
    BY <1>1, <2>1 DEF paymentVars, P!vars, Decoded
<1>6. CASE o.copies # 0
  <2> DEFINE n == o.copies
             new == Copies(d, n)
  <2>1. n \in 1 .. P!MaxCopies /\ n \in Nat
    BY <1>2, <1>6 DEF MaxCopies, P!MaxCopies
  <2>2. /\ Len(Log["created"]) = Len(createdTopic)
        /\ Mapped(Decode.created, createdTopic') = Log["created"] \o new
    <3>1. createdTopic \in Seq(CreatedEvent) /\ e \in CreatedEvent /\ n \in Nat
      BY <1>3, <1>4, <2>1
    <3> HIDE DEF e
    <3>2. /\ Len(Mapped(Decode.created, createdTopic)) = Len(createdTopic)
          /\ Mapped(Decode.created, Published(createdTopic, e, n))
                 = Mapped(Decode.created, createdTopic) \o Copies(Decode.created[e], n)
      BY <3>1, MappedPublished
    <3>3. QED
      BY <1>1, <1>3, <1>4, <3>2, LogIsMapped
  <2>3. Log' = [Log EXCEPT !["created"] = @ \o new]
    <3>1. Log' = [t \in {"created", "cancelled"} |->
                     IF t = "created" THEN Mapped(Decode.created, createdTopic')
                     ELSE Mapped(Decode.cancelled, cancelledTopic)]
      BY <1>1, <1>4, LogIsMapped, DecodedIsMapped DEF Log, Decoded
    <3>2. QED
      BY <1>4, <2>2, <3>1, LogIsMapped
  <2>4. P!Announce
    BY <1>2, <1>3, <2>1, <2>2, <2>3
       DEF P!Announce, paymentVars, P!tables, P!refunding, Log, Copies
  <2>5. QED
    BY <2>4
<1>7. QED
  BY <1>5, <1>6

LEMMA CancelledIsAnnounced ==
    ASSUME AllPrices, Inv, Inv', UNCHANGED paymentVars, NEW h \in Handlers, PublishCancelled(h)
    PROVE  P!Announce \/ UNCHANGED P!vars
<1> DEFINE d == [booking |-> bid[h], price |-> 0]
<1>1. PICK o \in PublishOutcomes(cancelledTopic) :
          /\ pc[h] = "x_publish" /\ createdTopic' = createdTopic
          /\ cancelledTopic' = Published(cancelledTopic, bid[h], o.copies)
  BY DEF PublishCancelled
<1>2. o.copies \in 0 .. MaxCopies /\ Len(cancelledTopic) + o.copies <= MaxEvents
  BY DEF PublishOutcomes
<1>3. bid[h] \in BookingIds /\ Decode.cancelled[bid[h]] = d /\ d \in P!Event
  <2>1. bid[h] \in BookingIds
    BY <1>1 DEF Inv, TypeOK, Equipped, Announcing
  <2>2. QED
    BY <2>1 DEF Decode, P!Event, AllPrices
<1>4. /\ createdTopic \in Seq(CreatedEvent) /\ cancelledTopic \in Seq(BookingIds)
      /\ createdTopic' \in Seq(CreatedEvent) /\ cancelledTopic' \in Seq(BookingIds)
  BY DEF Inv, TypeOK
<1>5. CASE o.copies = 0
  <2>1. cancelledTopic' = cancelledTopic
    BY <1>1, <1>4, <1>5, NothingPublished
  <2>2. QED
    BY <1>1, <2>1 DEF paymentVars, P!vars, Decoded
<1>6. CASE o.copies # 0
  <2> DEFINE n == o.copies
             new == Copies(d, n)
  <2>1. n \in 1 .. P!MaxCopies /\ n \in Nat
    BY <1>2, <1>6 DEF MaxCopies, P!MaxCopies
  <2>2. /\ Len(Log["cancelled"]) = Len(cancelledTopic)
        /\ Mapped(Decode.cancelled, cancelledTopic') = Log["cancelled"] \o new
    <3>1. cancelledTopic \in Seq(BookingIds) /\ bid[h] \in BookingIds /\ n \in Nat
      BY <1>3, <1>4, <2>1
    <3>2. /\ Len(Mapped(Decode.cancelled, cancelledTopic)) = Len(cancelledTopic)
          /\ Mapped(Decode.cancelled, Published(cancelledTopic, bid[h], n))
                 = Mapped(Decode.cancelled, cancelledTopic) \o Copies(Decode.cancelled[bid[h]], n)
      BY <3>1, MappedPublished
    <3>3. QED
      BY <1>1, <1>3, <1>4, <3>2, LogIsMapped
  <2>3. Log' = [Log EXCEPT !["cancelled"] = @ \o new]
    <3>1. Log' = [t \in {"created", "cancelled"} |->
                     IF t = "created" THEN Mapped(Decode.created, createdTopic)
                     ELSE Mapped(Decode.cancelled, cancelledTopic')]
      BY <1>1, <1>4, LogIsMapped, DecodedIsMapped DEF Log, Decoded
    <3>2. QED
      BY <1>4, <2>2, <3>1, LogIsMapped
  <2>4. P!Announce
    BY <1>2, <1>3, <2>1, <2>2, <2>3
       DEF P!Announce, paymentVars, P!tables, P!refunding, Log, Copies
  <2>5. QED
    BY <2>4
<1>7. QED
  BY <1>5, <1>6

\* What reservation-service sends is what Payment takes its environment to do:
\* its proofs, which know nothing of reservations, hold here.
THEOREM PaymentIsImplemented ==
    ASSUME AllPrices
    PROVE  BookingSpec => PaymentImplemented
<1>1. BookingInit => P!Init
  BY DEF BookingInit
<1>2. Inv /\ Inv' /\ [BookingNext]_bookingVars => [P!Next]_(P!vars)
  <2> SUFFICES ASSUME Inv, Inv', [BookingNext]_bookingVars PROVE [P!Next]_(P!vars)
    OBVIOUS
  <2>1. CASE PaymentStep
    BY <2>1 DEF PaymentStep, P!Next
  <2>2. CASE UNCHANGED paymentVars /\ [Next]_vars
    <3>1. CASE topics' = topics
      BY <2>2, <3>1 DEF paymentVars, P!vars, Decoded
    <3>2. CASE topics' # topics
      BY <2>2, <3>2, WhoPublishes, CreatedIsAnnounced, CancelledIsAnnounced DEF P!Next
    <3>3. QED
      BY <3>1, <3>2
  <2>3. QED
    BY <2>1, <2>2 DEF BookingNext, ReservationStep, bookingVars, vars, paymentVars
<1>3. QED
  BY <1>1, <1>2, ReservationRuns, InvIsInvariant, PTL DEF BookingSpec, PaymentImplemented, P!Spec

(***************************************************************************)
(* What is proved of payment-service alone                                 *)
(***************************************************************************)
\* P and PP are one instance of Payment twice: their definitions say the same.
LEMMA SameConsume == P!Consume => PP!Consume
  BY DEF P!Consume, PP!Consume, PP!Topics, P!Step, PP!Step,
         P!ReadMessage, PP!ReadMessage, P!Accepted, PP!Accepted,
         P!LookupCreated, PP!LookupCreated, P!PaymentsOf, PP!PaymentsOf,
         P!CreatePendingPayment, PP!CreatePendingPayment, P!NewPayment, PP!NewPayment,
         P!LookupCancelled, PP!LookupCancelled, P!NothingToRefund, PP!NothingToRefund,
         P!IsFirst, PP!IsFirst, P!Refundable, PP!Refundable, P!Remaining, PP!Remaining,
         P!reading, PP!reading, P!tables, PP!tables, P!refunding, PP!refunding

LEMMA SameRefund == ASSUME NEW w, P!MakeRefund(w) PROVE PP!MakeRefund(w)
  BY DEF P!MakeRefund, PP!MakeRefund, PP!Refunders, P!Step, PP!Step,
         P!LockPayment, PP!LockPayment, P!Locked, PP!Locked, P!Verdict, PP!Verdict,
         P!Remaining, PP!Remaining, P!After, PP!After,
         P!CommitRefund, PP!CommitRefund, P!Refunded, PP!Refunded,
         P!reading, PP!reading, P!tables, PP!tables

LEMMA SameServe == P!Serve => PP!Serve
<1> USE DEF PP!Topics, PP!Refunders, P!Step, PP!Step, P!Fault, PP!Fault, P!Answers, PP!Answers,
            P!reading, PP!reading, P!tables, PP!tables, P!refunding, PP!refunding
<1>1. ASSUME NEW t, P!ReadFails(t) \/ P!ConsumerFails(t)
      PROVE  PP!ReadFails(t) \/ PP!ConsumerFails(t)
  BY <1>1 DEF P!ReadFails, PP!ReadFails, P!ConsumerFails, PP!ConsumerFails
<1>2. P!CreatePayment => PP!CreatePayment
  BY DEF P!CreatePayment, PP!CreatePayment, P!NewPayment, PP!NewPayment
<1>3. ASSUME NEW h, P!CreateRefund(h) \/ P!Respond(h)
      PROVE  PP!CreateRefund(h) \/ PP!Respond(h)
  BY <1>3 DEF P!CreateRefund, PP!CreateRefund, P!Respond, PP!Respond
<1>4. ASSUME NEW w, P!RefundFails(w) PROVE PP!RefundFails(w)
  BY <1>4 DEF P!RefundFails, PP!RefundFails, P!After, PP!After
<1>5. P!Restart => PP!Restart
  BY DEF P!Restart, PP!Restart
<1>6. QED
  BY <1>1, <1>2, <1>3, <1>4, <1>5, SameConsume, SameRefund DEF P!Serve, PP!Serve

LEMMA SameSpec == P!Spec => PP!Spec
<1>1. P!Init => PP!Init
  BY DEF P!Init, PP!Init, PP!Topics, PP!Refunders
<1>2. [P!Next]_(P!vars) => [PP!Next]_(PP!vars)
  <2>1. P!Announce => PP!Announce
    BY DEF P!Announce, PP!Announce, PP!Topics, P!Event, PP!Event, P!MaxCopies, PP!MaxCopies,
           P!tables, PP!tables, P!refunding, PP!refunding
  <2>2. UNCHANGED P!vars => UNCHANGED PP!vars
    BY DEF P!vars, PP!vars
  <2>3. QED
    BY <2>1, <2>2, SameServe DEF P!Next, PP!Next
<1>3. QED
  BY <1>1, <1>2, PTL DEF P!Spec, PP!Spec

\* What Payment assumes of its constants: with AllPrices, any amount above zero.
Configured == P!AmountAssumption /\ P!BoundAssumption /\ P!NameAssumption

LEMMA PaymentRuns ==
    ASSUME AllPrices, Configured
    PROVE  /\ BookingSpec => PP!Spec
           /\ PP!AmountAssumption /\ PP!BoundAssumption /\ PP!NameAssumption
<1>1. PP!AmountAssumption /\ PP!BoundAssumption /\ PP!NameAssumption
  BY DEF Configured, P!AmountAssumption, PP!AmountAssumption, P!BoundAssumption,
         PP!BoundAssumption, P!NameAssumption, PP!NameAssumption, PP!Topics, P!Event, PP!Event,
         P!Refund, PP!Refund, P!Row, PP!Row
<1>2. BookingSpec => PP!Spec
  BY PaymentIsImplemented, SameSpec, PTL DEF PaymentImplemented
<1>3. QED
  BY <1>1, <1>2

\* With reservation-service at the other end of the topics, no payment gives
\* back more than it took, and the refunds of a payment come to what it says.
THEOREM RefundsAreSoundHere ==
    ASSUME AllPrices, Configured
    PROVE  BookingSpec => [](P!PaymentsSound /\ P!RefundsBalance)
<1>1. PP!Spec => [](PP!PaymentsSound /\ PP!RefundsBalance)
  BY PaymentRuns, PP!PaymentsAreSound, PP!RefundsAreBalanced, PTL
<1>2. PP!PaymentsSound => P!PaymentsSound
  BY DEF P!PaymentsSound, PP!PaymentsSound
<1>3. PP!RefundsBalance => P!RefundsBalance
  BY DEF P!RefundsBalance, PP!RefundsBalance, P!RefundedTotal, PP!RefundedTotal,
         P!TotalOf, PP!TotalOf
<1>4. QED
  BY <1>1, <1>2, <1>3, PaymentRuns, PTL

\* With reservation-service at the other end of the topics, no payment
\* disappears, changes what it is for or is reopened.
THEOREM PaymentsAreKeptHere ==
    ASSUME AllPrices, Configured
    PROVE  BookingSpec => P!PaymentsOnlyGrow
<1>1. PP!Spec => PP!PaymentsOnlyGrow
  BY PaymentRuns, PP!PaymentsAreKept
<1>2. PP!PaymentsOnlyGrow => P!PaymentsOnlyGrow
  BY DEF P!PaymentsOnlyGrow, PP!PaymentsOnlyGrow, P!vars, PP!vars
<1>3. QED
  BY <1>1, <1>2, PaymentRuns

(***************************************************************************)
(* What payment-service holds has been announced                           *)
(***************************************************************************)
Announced(b, a) ==
    \E k \in DOMAIN createdTopic :
        createdTopic[k].booking = b /\ Rounded(createdTopic[k].price) = a

Told(b) == \E k \in DOMAIN cancelledTopic : cancelledTopic[k] = b

\* The message a consumer works on is in its topic, and a row that is being
\* refunded was paid: it will not be written back as pending.
BilledInv ==
    /\ \E S : payments \in Seq(S)
    /\ next \in [P!Topics -> Nat] /\ committed \in [P!Topics -> Nat]
    /\ DOMAIN event = P!Topics /\ DOMAIN seen = P!Refunders
    /\ DOMAIN work = RefundHandlers \union P!Topics
    /\ work["created"] \in {"lookup", "insert"} =>
           Announced(event["created"].booking, event["created"].price)
    /\ work["cancelled"] \in {"lookup", "lock", "commit"} =>
           Told(event["cancelled"].booking)
    /\ \A w \in P!Refunders : work[w] = "commit" => seen[w].status = "completed"
    /\ \A i \in DOMAIN payments :
           payments[i].status = "pending" => Announced(payments[i].booking, payments[i].amount)

\* A sequence of anything, lengthened or with one element replaced.
LEMMA AnyAppend ==
    ASSUME NEW S, NEW s \in Seq(S), NEW x
    PROVE  /\ Append(s, x) \in Seq(S \union {x})
           /\ \A i \in DOMAIN Append(s, x) :
                  \/ i \in DOMAIN s /\ Append(s, x)[i] = s[i]
                  \/ Append(s, x)[i] = x
<1>1. s \in Seq(S \union {x}) /\ x \in S \union {x}
  OBVIOUS
<1>2. QED
  BY <1>1, AppendProperties

LEMMA PaymentsAppended ==
    ASSUME BilledInv, NEW p, payments' = Append(payments, p)
    PROVE  /\ \E S : payments' \in Seq(S)
           /\ \A i \in DOMAIN payments' :
                  (i \in DOMAIN payments /\ payments'[i] = payments[i]) \/ payments'[i] = p
<1>1. PICK S : payments \in Seq(S)
  BY DEF BilledInv
<1>2. QED
  BY <1>1, AnyAppend

LEMMA AnyExcept ==
    ASSUME NEW S, NEW s \in Seq(S), NEW k, NEW x
    PROVE  /\ [s EXCEPT ![k] = x] \in Seq(S \union {x})
           /\ DOMAIN [s EXCEPT ![k] = x] = DOMAIN s
           /\ \A i \in DOMAIN s : [s EXCEPT ![k] = x][i] = IF i = k THEN x ELSE s[i]
<1> DEFINE u == [s EXCEPT ![k] = x]
<1>1. Len(s) \in Nat /\ DOMAIN s = 1 .. Len(s) /\ \A i \in 1 .. Len(s) : s[i] \in S
  OBVIOUS
<1>2. u = [i \in 1 .. Len(s) |-> IF i = k THEN x ELSE s[i]]
  BY <1>1
<1>3. u \in [1 .. Len(s) -> S \union {x}]
  BY <1>1, <1>2
<1>4. u \in Seq(S \union {x})
  BY <1>1, <1>3
<1>5. QED
  BY <1>1, <1>2, <1>4

\* The topics only grow, and what was announced stays announced.
LEMMA TopicsGrow ==
    ASSUME Inv, [Next]_vars
    PROVE  /\ \A b, a : Announced(b, a) => Announced(b, a)'
           /\ \A b : Told(b) => Told(b)'
<1>1. /\ \A i \in DOMAIN createdTopic :
             i \in DOMAIN createdTopic' /\ createdTopic'[i] = createdTopic[i]
      /\ \A i \in DOMAIN cancelledTopic :
             i \in DOMAIN cancelledTopic' /\ cancelledTopic'[i] = cancelledTopic[i]
  <2>1. CASE topics' = topics
    BY <2>1
  <2>2. createdTopic \in Seq(CreatedEvent) /\ cancelledTopic \in Seq(BookingIds)
    BY DEF Inv, TypeOK
  <2>3. ASSUME NEW h \in Handlers, PublishCreated(h)
        PROVE  /\ cancelledTopic' = cancelledTopic
               /\ \A i \in DOMAIN createdTopic :
                      i \in DOMAIN createdTopic' /\ createdTopic'[i] = createdTopic[i]
    <3> DEFINE e == [booking |-> bid[h], price |-> mem[h].price]
    <3>1. PICK o \in PublishOutcomes(createdTopic) :
              /\ pc[h] = "c_publish" /\ cancelledTopic' = cancelledTopic
              /\ createdTopic' = Published(createdTopic, e, o.copies)
      BY <2>3 DEF PublishCreated
    <3>2. e \in CreatedEvent /\ o.copies \in Nat
      BY <3>1 DEF Inv, TypeOK, Equipped, Announcing, Row, CreatedEvent, PublishOutcomes, MaxCopies
    <3> HIDE DEF e
    <3>3. QED
      BY <2>2, <3>1, <3>2, PublishedHolds
  <2>4. ASSUME NEW h \in Handlers, PublishCancelled(h)
        PROVE  /\ createdTopic' = createdTopic
               /\ \A i \in DOMAIN cancelledTopic :
                      i \in DOMAIN cancelledTopic' /\ cancelledTopic'[i] = cancelledTopic[i]
    <3>1. PICK o \in PublishOutcomes(cancelledTopic) :
              /\ pc[h] = "x_publish" /\ createdTopic' = createdTopic
              /\ cancelledTopic' = Published(cancelledTopic, bid[h], o.copies)
      BY <2>4 DEF PublishCancelled
    <3>2. bid[h] \in BookingIds /\ o.copies \in Nat
      BY <3>1 DEF Inv, TypeOK, Equipped, Announcing, PublishOutcomes, MaxCopies
    <3>3. QED
      BY <2>2, <3>1, <3>2, PublishedHolds
  <2>5. QED
    BY <2>1, <2>3, <2>4, WhoPublishes
<1>2. QED
  BY <1>1 DEF Announced, Told

LEMMA ReservationKeepsBilled ==
    ASSUME Inv, BilledInv, [Next]_vars, UNCHANGED paymentVars
    PROVE  BilledInv'
BY TopicsGrow DEF paymentVars, BilledInv

\* The message read is one of the topic.
LEMMA ReadIsAnnounced ==
    ASSUME Inv, BilledInv, UNCHANGED vars, NEW t \in P!Topics, P!ReadMessage(t)
    PROVE  BilledInv'
<1>1. createdTopic \in Seq(CreatedEvent) /\ cancelledTopic \in Seq(BookingIds)
  BY DEF Inv, TypeOK
<1>2. /\ next[t] < Len(Log[t])
      /\ P!Step(t, "idle", IF P!Accepted(t, Log[t][next[t] + 1]) THEN "lookup" ELSE "idle")
      /\ event' = [event EXCEPT ![t] = Log[t][next[t] + 1]]
      /\ next' = [next EXCEPT ![t] = @ + 1] /\ committed' = [committed EXCEPT ![t] = next[t] + 1]
      /\ UNCHANGED <<payments, seen>>
  BY DEF P!ReadMessage, P!tables, P!refunding, Log
<1>3. /\ Len(Log["created"]) = Len(createdTopic)
      /\ \A k \in 1 .. Len(createdTopic) :
             Log["created"][k] = [booking |-> createdTopic[k].booking,
                                  price |-> Rounded(createdTopic[k].price)]
  BY <1>1 DEF Log, Decoded
<1>4. /\ Len(Log["cancelled"]) = Len(cancelledTopic)
      /\ \A k \in 1 .. Len(cancelledTopic) :
             Log["cancelled"][k] = [booking |-> cancelledTopic[k], price |-> 0]
  BY <1>1 DEF Log, Decoded
<1>5. next[t] + 1 \in 1 .. Len(Log[t])
  BY <1>1, <1>2, <1>3, <1>4 DEF BilledInv
<1>6. event'[t] = Log[t][next[t] + 1]
  BY <1>2 DEF BilledInv
<1>7. /\ t = "created" => Announced(event'[t].booking, event'[t].price)
      /\ t = "cancelled" => Told(event'[t].booking)
  <2> DEFINE k == next[t] + 1
  <2>1. CASE t = "created"
    <3>1. k \in 1 .. Len(createdTopic) /\ DOMAIN createdTopic = 1 .. Len(createdTopic)
      BY <1>1, <1>3, <1>5, <2>1
    <3>2. event'[t] = [booking |-> createdTopic[k].booking, price |-> Rounded(createdTopic[k].price)]
      BY <1>3, <1>6, <2>1, <3>1
    <3>3. QED
      BY <2>1, <3>1, <3>2 DEF Announced
  <2>2. CASE t = "cancelled"
    <3>1. k \in 1 .. Len(cancelledTopic) /\ DOMAIN cancelledTopic = 1 .. Len(cancelledTopic)
      BY <1>1, <1>4, <1>5, <2>2
    <3>2. event'[t] = [booking |-> cancelledTopic[k], price |-> 0]
      BY <1>4, <1>6, <2>2, <3>1
    <3>3. QED
      BY <2>2, <3>1, <3>2 DEF Told
  <2>3. QED
    BY <2>1, <2>2
<1>8. /\ next' \in [P!Topics -> Nat] /\ committed' \in [P!Topics -> Nat]
      /\ DOMAIN event' = P!Topics /\ DOMAIN seen' = P!Refunders
      /\ DOMAIN work' = RefundHandlers \union P!Topics
  BY <1>2 DEF BilledInv, P!Step
<1>9. \A w \in P!Refunders : work'[w] = "commit" => seen'[w].status = "completed"
  BY <1>2 DEF BilledInv, P!Step
<1>10. /\ work'["created"] \in {"lookup", "insert"} =>
               Announced(event'["created"].booking, event'["created"].price)
       /\ work'["cancelled"] \in {"lookup", "lock", "commit"} => Told(event'["cancelled"].booking)
  BY <1>2, <1>7 DEF BilledInv, P!Step
<1>11. UNCHANGED <<createdTopic, cancelledTopic>>
  BY DEF vars
<1>12. QED
  BY <1>2, <1>8, <1>9, <1>10, <1>11 DEF BilledInv, Announced, Told

\* A step of payment-service that makes no payment and saves none.
LEMMA WorkKeepsBilled ==
    ASSUME BilledInv, UNCHANGED <<createdTopic, cancelledTopic, payments>>,
           next' \in [P!Topics -> Nat], committed' \in [P!Topics -> Nat],
           DOMAIN event' = P!Topics, DOMAIN seen' = P!Refunders,
           DOMAIN work' = RefundHandlers \union P!Topics,
           work'["created"] \in {"lookup", "insert"} =>
               work["created"] \in {"lookup", "insert"} /\ event'["created"] = event["created"],
           work'["cancelled"] \in {"lookup", "lock", "commit"} =>
               /\ work["cancelled"] \in {"lookup", "lock", "commit"}
               /\ event'["cancelled"] = event["cancelled"],
           \A w \in P!Refunders : work'[w] = "commit" => seen'[w].status = "completed"
    PROVE  BilledInv'
<1>1. \A b, a : Announced(b, a)' = Announced(b, a) /\ Told(b)' = Told(b)
  BY DEF Announced, Told
<1>2. QED
  BY <1>1 DEF BilledInv

LEMMA ServeKeepsBilled ==
    ASSUME Inv, BilledInv, UNCHANGED vars, P!Serve
    PROVE  BilledInv'
<1> USE DEF P!Step, P!Fault, P!reading, P!tables, P!refunding
<1>1. UNCHANGED <<createdTopic, cancelledTopic>>
  BY DEF vars
<1>2. /\ "cancelled" \in P!Refunders /\ "created" \notin P!Refunders
      /\ "cancelled" \notin RefundHandlers /\ "created" # "cancelled"
  BY RefundAssumption
<1>3. \A b, a : Announced(b, a)' = Announced(b, a) /\ Told(b)' = Told(b)
  BY <1>1 DEF Announced, Told
<1>4. ASSUME NEW t \in P!Topics, P!ReadMessage(t) PROVE BilledInv'
  BY <1>4, ReadIsAnnounced
<1>5. ASSUME NEW t \in P!Topics, P!ReadFails(t) PROVE BilledInv'
  <2>1. next' \in [P!Topics -> Nat] /\ committed' \in [P!Topics -> Nat]
    BY <1>5 DEF P!ReadFails, BilledInv
  <2>2. QED
    BY <1>1, <1>5, <2>1, WorkKeepsBilled DEF P!ReadFails, BilledInv
<1>6. ASSUME NEW t \in P!Topics, P!ConsumerFails(t) PROVE BilledInv'
  BY <1>1, <1>6, WorkKeepsBilled DEF P!ConsumerFails, BilledInv
<1>7. CASE P!LookupCreated \/ P!NothingToRefund
  BY <1>1, <1>7, WorkKeepsBilled DEF P!LookupCreated, P!NothingToRefund, BilledInv
<1>8. CASE P!LookupCancelled
  BY <1>1, <1>8, WorkKeepsBilled DEF P!LookupCancelled, BilledInv
<1>9. CASE P!CreatePendingPayment
  <2> DEFINE p == P!NewPayment(event["created"].booking, event["created"].price, "pending")
  <2>1. /\ payments' = Append(payments, p) /\ work' = [work EXCEPT !["created"] = "idle"]
        /\ work["created"] = "insert" /\ UNCHANGED <<next, committed, event, seen>>
    BY <1>9 DEF P!CreatePendingPayment
  <2>2. Announced(p.booking, p.amount)
    BY <2>1 DEF P!NewPayment, BilledInv
  <2> HIDE DEF p
  <2>3. /\ \E S : payments' \in Seq(S)
        /\ \A i \in DOMAIN payments' :
               (i \in DOMAIN payments /\ payments'[i] = payments[i]) \/ payments'[i] = p
    BY <2>1, PaymentsAppended
  <2>4. QED
    BY <1>2, <1>3, <2>1, <2>2, <2>3 DEF BilledInv
<1>10. CASE P!CreatePayment
  <2>1. PICK b \in BookingIds, a \in Amounts :
            payments' = Append(payments, P!NewPayment(b, a, "completed"))
    BY <1>10 DEF P!CreatePayment
  <2> DEFINE p == P!NewPayment(b, a, "completed")
  <2>2. p.status # "pending" /\ UNCHANGED <<next, committed, event, seen, work>>
    BY <1>10 DEF P!CreatePayment, P!NewPayment
  <2> HIDE DEF p
  <2>3. payments' = Append(payments, p)
    BY <2>1 DEF p
  <2>4. /\ \E S : payments' \in Seq(S)
        /\ \A i \in DOMAIN payments' :
               (i \in DOMAIN payments /\ payments'[i] = payments[i]) \/ payments'[i] = p
    BY <2>3, PaymentsAppended
  <2>5. QED
    BY <1>3, <2>2, <2>4 DEF BilledInv
<1>11. ASSUME NEW h \in RefundHandlers, P!CreateRefund(h) \/ P!Respond(h) PROVE BilledInv'
  BY <1>1, <1>2, <1>11, WorkKeepsBilled DEF P!CreateRefund, P!Respond, BilledInv
<1>12. ASSUME NEW w \in P!Refunders, P!LockPayment(w) PROVE BilledInv'
  <2> DEFINE v == P!Verdict(job[w].payment, job[w].amount)
  <2>1. /\ work[w] = "lock" /\ UNCHANGED <<next, committed, event, payments>>
        /\ work' = [work EXCEPT ![w] = IF v = "commit" THEN v ELSE P!After(w, v)]
        /\ seen' = [seen EXCEPT ![w] = IF v = "commit" THEN payments[job[w].payment] ELSE None]
    BY <1>12 DEF P!LockPayment
  <2>2. v \in {"internal", "refused", "commit"} /\ P!After(w, v) \in {v, "idle"}
    BY DEF P!Verdict, P!After
  <2>3. v = "commit" => payments[job[w].payment].status = "completed"
    BY DEF P!Verdict
  <2> HIDE DEF v
  <2>4. \A x \in P!Refunders : work'[x] = "commit" => seen'[x].status = "completed"
    BY <2>1, <2>2, <2>3 DEF BilledInv
  <2>5. QED
    BY <1>1, <1>2, <2>1, <2>2, <2>4, WorkKeepsBilled DEF BilledInv
<1>13. ASSUME NEW w \in P!Refunders, P!CommitRefund(w) PROVE BilledInv'
  <2> DEFINE p == P!Refunded(seen[w], job[w].amount)
             to == P!After(w, "refunded")
  <2>1. /\ work[w] = "commit" /\ work' = [work EXCEPT ![w] = to]
        /\ payments' = [payments EXCEPT ![job[w].payment] = p]
        /\ seen' = [seen EXCEPT ![w] = None] /\ UNCHANGED <<next, committed, event>>
    BY <1>13 DEF P!CommitRefund
  <2>2. to \in {"refunded", "idle"}
    BY DEF P!After
  <2>3. p.status # "pending"
    <3>1. seen[w].status = "completed"
      BY <2>1 DEF BilledInv
    <3>2. QED
      BY <3>1 DEF P!Refunded
  <2> HIDE DEF p, to
  <2>4. \E S : payments' \in Seq(S)
    <3>1. PICK S : payments \in Seq(S)
      BY DEF BilledInv
    <3>2. payments' \in Seq(S \union {p})
      BY <2>1, <3>1, AnyExcept
    <3>3. QED
      BY <3>2
  <2>5. \A i \in DOMAIN payments' : payments'[i].status = "pending" =>
            Announced(payments'[i].booking, payments'[i].amount)
    BY <2>1, <2>3, AnyExcept DEF BilledInv
  <2>6. QED
    BY <1>2, <1>3, <2>1, <2>2, <2>4, <2>5 DEF BilledInv
<1>14. ASSUME NEW w \in P!Refunders, P!RefundFails(w) PROVE BilledInv'
  <2>1. P!After(w, "internal") \in {"internal", "idle"}
    BY DEF P!After
  <2>2. QED
    BY <1>1, <1>2, <1>14, <2>1, WorkKeepsBilled DEF P!RefundFails, BilledInv
<1>15. CASE P!Restart
  BY <1>1, <1>2, <1>15, WorkKeepsBilled DEF P!Restart, BilledInv
<1>16. QED
  BY <1>4, <1>5, <1>6, <1>7, <1>8, <1>9, <1>10, <1>11, <1>12, <1>13, <1>14, <1>15
     DEF P!Serve, P!Consume, P!MakeRefund

LEMMA BilledIsInvariant == BookingSpec => [](Inv /\ BilledInv /\ AnnouncedInv)
<1>1. BookingInit => BilledInv
  <2>1. << >> \in Seq({})
    OBVIOUS
  <2>2. QED
    BY <2>1 DEF BookingInit, P!Init, BilledInv
<1>2. Inv /\ BilledInv /\ [BookingNext]_bookingVars => BilledInv'
  <2> SUFFICES ASSUME Inv, BilledInv, [BookingNext]_bookingVars PROVE BilledInv'
    OBVIOUS
  <2>1. CASE PaymentStep
    BY <2>1, ServeKeepsBilled DEF PaymentStep
  <2>2. CASE UNCHANGED paymentVars /\ [Next]_vars
    BY <2>2, ReservationKeepsBilled
  <2>3. QED
    BY <2>1, <2>2 DEF BookingNext, ReservationStep, bookingVars, vars, paymentVars
<1>3. QED
  BY <1>1, <1>2, ReservationRuns, AnnouncedIsInvariant, PTL DEF BookingSpec

\* What payment-service bills was committed and announced, at that amount,
\* whatever failed or restarted in between.
THEOREM BillsAreOfBookings == BookingSpec => []PendingIsAnnounced
<1>1. BilledInv /\ AnnouncedInv => PendingIsAnnounced
  BY DEF BilledInv, AnnouncedInv, EventsNameBookings, Announced, PendingIsAnnounced
<1>2. QED
  BY <1>1, BilledIsInvariant, PTL

\* A booking is billed once, and for what it is: its pending payments, of which
\* there is one at most, are at the amount of a creation that was committed and
\* announced, although events are sent twice and read again.
THEOREM BookingsAreBilledOnce ==
    ASSUME AllPrices, Configured
    PROVE  BookingSpec => [](PendingIsAnnounced /\ P!OnePendingPayment)
<1>1. PP!Spec => []PP!OnePendingPayment
  BY PaymentRuns, PP!PendingIsUnique
<1>2. PP!OnePendingPayment => P!OnePendingPayment
  BY DEF P!OnePendingPayment, PP!OnePendingPayment
<1>3. QED
  BY <1>1, <1>2, PaymentRuns, BillsAreOfBookings, PTL

\* Of reservations that do not overlap between a read and its write, only
\* cancelled ones are paid back by the consumer, however late it reads of them.
THEOREM ExclusiveOnlyCancelledAreRefunded ==
    BookingSpec /\ []Exclusive => []RefundMeansCancelled
<1>1. BilledInv /\ CancelEventMeansCancelled => RefundMeansCancelled
  BY DEF BilledInv, CancelEventMeansCancelled, Told, RefundMeansCancelled
<1>2. QED
  BY <1>1, BilledIsInvariant, ReservationRuns, ExclusiveCancelEvents, PTL

\* Of reservations served one at a time, only cancelled ones are paid back by
\* the consumer.
THEOREM OnlyCancelledAreRefunded ==
    ASSUME OneAtATime
    PROVE  BookingSpec => []RefundMeansCancelled
  BY SerialIsExclusive, ExclusiveOnlyCancelledAreRefunded, PTL
===============================================================================
