-------------------------- MODULE AvailabilityProofs --------------------------
(***************************************************************************)
(* The sweep of GetVenueAvailability, for any bookings, days and hours:    *)
(* what it advertises passes the checks that a booking of it would meet.   *)
(* The invariant of the loop is about the instant prev: every booking seen *)
(* so far ends by then, and what was found before lies clear of every      *)
(* booking of the day, those still to come included.                       *)
(***************************************************************************)
EXTENDS Availability, TLAPS

OpenDay ==
    /\ date \in Days /\ reply \in VenueReplies
    /\ reply.enabled /\ reply.opens # None /\ reply.closes # None

Instants == [start : Nat, end : Nat]

\* A slot of an hour within the hours of the venue that no booking of the day
\* cuts into.
GoodSlot(s) ==
    /\ Opens <= s.start /\ s.end <= Closes /\ s.end - s.start >= HourLength
    /\ \A id \in BookingIds : Counts(rows[id]) => ~Overlap(Clipped(rows[id]), s)

Counted == {id \in BookingIds : Counts(rows[id])}

Swept ==
    /\ prev \in Nat /\ Opens <= prev /\ prev <= Closes
    /\ todo \subseteq Counted
    /\ \A id \in Counted \ todo : Clipped(rows[id]).end <= prev
    /\ \A i \in DOMAIN slots :
           GoodSlot(slots[i]) /\ slots[i].end <= prev
           /\ (slots[i].end < prev \/ prev = Closes)
    /\ \A i, j \in DOMAIN slots : i < j => slots[i].end < slots[j].start

Inv ==
    /\ rows \in [BookingIds -> Bookings \union {None}]
    /\ slots \in Seq(Instants)
    /\ pc \in {"venue", "bookings", "sweep", "done", "error"}
    /\ pc \in {"venue", "bookings", "error"} => slots = << >>
    /\ pc \in {"bookings", "sweep"} => OpenDay
    /\ pc = "sweep" => Swept
    /\ pc = "done" =>
           \/ slots = << >>
           \/ OpenDay /\ \A i \in DOMAIN slots : GoodSlot(slots[i])

(***************************************************************************)
(* Days, hours and stretches                                               *)
(***************************************************************************)
LEMMA OpenHours ==
    ASSUME OpenDay
    PROVE  /\ date \in Nat /\ reply.opens \in Nat /\ reply.closes \in Nat
           /\ Opens \in Nat /\ Closes \in Nat /\ Opens < Closes
           /\ reply.closes <= DayLength
<1>1. date \in Nat /\ reply \in Reply /\ reply.opens < reply.closes
  BY InputAssumption DEF OpenDay
<1>2. reply.opens \in 0 .. DayLength /\ reply.closes \in 0 .. DayLength
  BY <1>1 DEF Reply, OpenDay
<1>3. DayLength \in Nat
  BY LengthAssumption
<1>4. date * DayLength \in Nat
  BY <1>1, <1>3
<1>5. QED
  BY <1>1, <1>2, <1>3, <1>4 DEF Opens, Closes

LEMMA BookingType ==
    ASSUME NEW b \in Bookings
    PROVE  b # None /\ b.start \in Nat /\ b.end \in Nat /\ b.start < b.end
<1>1. b \in Booking /\ b # None /\ b.start < b.end
  BY InputAssumption
<1>2. QED
  BY <1>1, InputAssumption DEF Booking, Times

\* What is left of a booking that counts lies within the hours; it is empty
\* only at one of their ends.
LEMMA ClippedFacts ==
    ASSUME OpenDay, NEW b \in Bookings, Counts(b)
    PROVE  LET c == Clipped(b) IN
           /\ c.start \in Nat /\ c.end \in Nat
           /\ Opens <= c.start /\ c.start <= c.end /\ c.end <= Closes
           /\ c.start < c.end \/ c.start = Closes \/ c.start = Opens
<1>1. Opens \in Nat /\ Closes \in Nat /\ Opens < Closes
  BY OpenHours
<1>2. b.start \in Nat /\ b.end \in Nat /\ b.start < b.end
  BY BookingType
<1>3. ~(b.end < Opens) /\ ~(b.start > Closes)
  BY DEF Counts, InHours
<1> DEFINE o == Opens
           e == Closes
<1> HIDE DEF o, e
<1>4. Clipped(b).start = (IF b.start < o THEN o ELSE b.start)
      /\ Clipped(b).end = (IF e < b.end THEN e ELSE b.end)
  BY DEF Clipped, Earliest, o, e
<1>5. o \in Nat /\ e \in Nat /\ o < e /\ ~(b.end < o) /\ ~(b.start > e)
  BY <1>1, <1>3 DEF o, e
<1>6. QED
  BY <1>2, <1>4, <1>5 DEF o, e

\* A slot within the hours overlaps a booking only in what is left of it.
LEMMA ClippedOverlap ==
    ASSUME OpenDay, NEW b \in Bookings, NEW s \in Instants,
           Opens <= s.start, s.end <= Closes, s.start < s.end, Overlap(b, s)
    PROVE  InHours(b) /\ Overlap(Clipped(b), s)
<1>1. Opens \in Nat /\ Closes \in Nat
  BY OpenHours
<1>2. b.start \in Nat /\ b.end \in Nat
  BY BookingType
<1>3. s.start \in Nat /\ s.end \in Nat
  BY DEF Instants
<1>4. InHours(b)
  BY <1>1, <1>2, <1>3 DEF InHours, Overlap
<1> DEFINE o == Opens
           e == Closes
<1> HIDE DEF o, e
<1>5. Clipped(b).start = (IF b.start < o THEN o ELSE b.start)
      /\ Clipped(b).end = (IF e < b.end THEN e ELSE b.end)
  BY DEF Clipped, Earliest, o, e
<1>6. o \in Nat /\ e \in Nat /\ o <= s.start /\ s.end <= e
  BY <1>1 DEF o, e
<1>7. QED
  BY <1>2, <1>3, <1>4, <1>5, <1>6 DEF Overlap

LEMMA DayBounds ==
    ASSUME NEW t \in Nat
    PROVE  /\ DayOf(t, 0) \in Nat
           /\ DayOf(t, 0) * DayLength <= t /\ t < DayOf(t, 0) * DayLength + DayLength
BY LengthAssumption DEF DayOf

\* Days come one after another.
LEMMA DaysApart ==
    ASSUME NEW c \in Nat, NEW d \in Nat, c < d
    PROVE  c * DayLength + DayLength <= d * DayLength
<1> DEFINE n == DayLength
<1>1. n \in Nat
  BY LengthAssumption
<1> HIDE DEF n
<1>2. PICK k \in Nat : d = c + 1 + k
  <2>1. d - c - 1 \in Nat /\ d = c + 1 + (d - c - 1)
    OBVIOUS
  <2>2. QED
    BY <2>1
<1>3. d * n = c * n + n + k * n
  BY <1>1, <1>2
<1>4. k * n \in Nat /\ c * n \in Nat
  BY <1>1
<1>5. QED
  BY <1>1, <1>3, <1>4 DEF n

(***************************************************************************)
(* The sweep                                                               *)
(***************************************************************************)
\* What a stretch from prev to a later instant adds to the slots.
LEMMA FoundFacts ==
    ASSUME slots \in Seq(Instants), prev \in Nat, NEW to \in Nat
    PROVE  /\ Found(to) \in Seq(Instants)
           /\ \/ Found(to) = slots /\ DOMAIN Found(to) = DOMAIN slots
              \/ /\ to > prev /\ to - prev >= HourLength
                 /\ DOMAIN Found(to) = DOMAIN slots \union {Len(slots) + 1}
                 /\ \A i \in DOMAIN slots : i < Len(slots) + 1 /\ Found(to)[i] = slots[i]
                 /\ Found(to)[Len(slots) + 1] = Gap(prev, to)
<1> DEFINE g == Gap(prev, to)
<1>1. g \in Instants
  BY DEF Gap, Instants
<1>2. CASE to > prev /\ to - prev >= HourLength
  <2>1. Found(to) = Append(slots, g)
    BY <1>2 DEF Found
  <2> HIDE DEF g
  <2>2. /\ Append(slots, g) \in Seq(Instants)
        /\ DOMAIN Append(slots, g) = DOMAIN slots \union {Len(slots) + 1}
        /\ \A i \in DOMAIN slots : i < Len(slots) + 1 /\ Append(slots, g)[i] = slots[i]
        /\ Append(slots, g)[Len(slots) + 1] = g
    BY <1>1
  <2>3. QED
    BY <1>2, <2>1, <2>2 DEF g
<1>3. CASE ~(to > prev /\ to - prev >= HourLength)
  BY <1>3 DEF Found
<1>4. QED
  BY <1>2, <1>3

\* A stretch from prev to an instant no later than any booking still to come
\* is a slot.
LEMMA GapIsGood ==
    ASSUME OpenDay, Swept, rows \in [BookingIds -> Bookings \union {None}],
           NEW to \in Nat, to > prev, to - prev >= HourLength, to <= Closes,
           \A id \in todo : to <= Clipped(rows[id]).start
    PROVE  GoodSlot(Gap(prev, to))
<1>1. /\ Gap(prev, to).start = prev /\ Gap(prev, to).end = to
      /\ prev \in Nat /\ Opens <= prev
  BY DEF Gap, Swept
<1>2. ASSUME NEW id \in BookingIds, Counts(rows[id])
      PROVE  ~Overlap(Clipped(rows[id]), Gap(prev, to))
  <2>1. rows[id] \in Bookings
    BY <1>2 DEF Counts
  <2>2. Clipped(rows[id]).start \in Nat /\ Clipped(rows[id]).end \in Nat
    BY <1>2, <2>1, ClippedFacts
  <2>3. Clipped(rows[id]).end <= prev \/ to <= Clipped(rows[id]).start
    BY <1>2 DEF Swept, Counted
  <2>4. QED
    BY <1>1, <2>2, <2>3 DEF Overlap
<1>3. QED
  BY <1>1, <1>2 DEF GoodSlot

\* One turn of the loop.
LEMMA SweepStep ==
    ASSUME Inv, NEW id \in BookingIds, Sweep(id)
    PROVE  Inv'
<1> DEFINE c == Clipped(rows[id])
           new == Len(slots) + 1
<1>1. /\ OpenDay /\ Swept /\ id \in todo
      /\ rows \in [BookingIds -> Bookings \union {None}] /\ slots \in Seq(Instants)
  BY DEF Inv, Sweep
<1>2. Counts(rows[id]) /\ rows[id] \in Bookings
  BY <1>1 DEF Swept, Counted, Counts
<1>3. /\ Opens \in Nat /\ Closes \in Nat /\ prev \in Nat
      /\ Opens <= prev /\ prev <= Closes /\ HourLength \in Nat \ {0}
  BY <1>1, OpenHours, LengthAssumption DEF Swept
<1>4. /\ c.start \in Nat /\ c.end \in Nat
      /\ Opens <= c.start /\ c.start <= c.end /\ c.end <= Closes
      /\ c.start < c.end \/ c.start = Closes \/ c.start = Opens
  BY <1>1, <1>2, ClippedFacts
<1>5. /\ \A other \in todo : c.start <= Clipped(rows[other]).start
      /\ slots' = Found(c.start) /\ prev' = Reached(c.end) /\ todo' = todo \ {id}
      /\ UNCHANGED <<date, reply, rows, pc>>
  BY DEF Sweep
<1>6. /\ prev' \in Nat /\ prev <= prev' /\ c.end <= prev' /\ prev' <= Closes
  BY <1>3, <1>4, <1>5 DEF Reached
<1>7. /\ slots' \in Seq(Instants)
      /\ \/ slots' = slots /\ DOMAIN slots' = DOMAIN slots
         \/ /\ c.start > prev /\ c.start - prev >= HourLength
            /\ DOMAIN slots' = DOMAIN slots \union {new}
            /\ \A i \in DOMAIN slots : i < new /\ slots'[i] = slots[i]
            /\ slots'[new] = Gap(prev, c.start)
  BY <1>1, <1>3, <1>4, <1>5, FoundFacts
<1>8. UNCHANGED <<Opens, Closes>>
  BY <1>5 DEF Opens, Closes
<1>9. \A i \in DOMAIN slots :
          /\ slots[i] \in Instants /\ GoodSlot(slots[i]) /\ slots[i].end <= prev
          /\ slots[i].end < prev \/ prev = Closes
  BY <1>1 DEF Swept
<1>10. ASSUME NEW s, GoodSlot(s)
       PROVE  GoodSlot(s)'
  BY <1>5, <1>10 DEF GoodSlot, Counts, InHours, OnDate, Clipped, Earliest, Opens, Closes
<1> HIDE DEF c, new
<1>11. slots' # slots =>
          GoodSlot(Gap(prev, c.start)) /\ Gap(prev, c.start).start = prev
          /\ Gap(prev, c.start).end = c.start
  <2>1. c.start <= Closes
    BY <1>3, <1>4
  <2>2. QED
    BY <1>1, <1>4, <1>5, <1>7, <2>1, GapIsGood DEF Gap
<1>12. \A i \in DOMAIN slots' :
          /\ GoodSlot(slots'[i]) /\ slots'[i].end <= prev'
          /\ slots'[i].end < prev' \/ prev' = Closes
  <2> SUFFICES ASSUME NEW i \in DOMAIN slots'
               PROVE  /\ GoodSlot(slots'[i]) /\ slots'[i].end <= prev'
                      /\ slots'[i].end < prev' \/ prev' = Closes
    OBVIOUS
  <2>1. CASE i \in DOMAIN slots
    <3>1. slots'[i] = slots[i] /\ slots[i].end \in Nat
      BY <1>7, <1>9, <2>1 DEF Instants
    <3>2. QED
      BY <1>3, <1>6, <1>9, <2>1, <3>1
  <2>2. CASE i \notin DOMAIN slots
    <3>1. slots' # slots /\ slots'[i] = Gap(prev, c.start) /\ c.start > prev
      BY <1>7, <2>2
    <3>2. c.start < c.end \/ c.start = Closes
      BY <1>3, <1>4, <3>1
    <3>3. QED
      BY <1>3, <1>4, <1>6, <1>11, <3>1, <3>2
  <2>3. QED
    BY <2>1, <2>2
<1>13. \A i, j \in DOMAIN slots' : i < j => slots'[i].end < slots'[j].start
  <2> SUFFICES ASSUME NEW i \in DOMAIN slots', NEW j \in DOMAIN slots', i < j
               PROVE  slots'[i].end < slots'[j].start
    OBVIOUS
  <2>1. CASE j \in DOMAIN slots
    <3>1. i \in DOMAIN slots
      BY <1>1, <1>7, <2>1 DEF new
    <3>2. slots'[i] = slots[i] /\ slots'[j] = slots[j]
      BY <1>7, <2>1, <3>1
    <3>3. QED
      BY <1>1, <2>1, <3>1, <3>2 DEF Swept
  <2>2. CASE j \notin DOMAIN slots
    <3>1. slots' # slots /\ c.start > prev /\ slots'[j] = Gap(prev, c.start)
      BY <1>7, <2>2
    <3>2. i \in DOMAIN slots /\ slots'[i] = slots[i]
      BY <1>1, <1>7, <2>2 DEF new
    <3>3. prev # Closes
      BY <1>3, <1>4, <3>1
    <3>4. QED
      BY <1>9, <1>11, <3>1, <3>2, <3>3
  <2>3. QED
    BY <2>1, <2>2
<1>14. Counted' = Counted /\ \A k \in Counted : Clipped(rows[k])' = Clipped(rows[k])
  BY <1>5 DEF Counted, Counts, InHours, OnDate, Clipped, Earliest, Opens, Closes
<1>15. \A k \in Counted \ todo' : Clipped(rows[k]).end <= prev'
  <2> SUFFICES ASSUME NEW k \in Counted \ todo'
               PROVE  Clipped(rows[k]).end <= prev'
    OBVIOUS
  <2>1. CASE k = id
    BY <1>6, <2>1 DEF c
  <2>2. CASE k # id
    <3>1. Clipped(rows[k]).end <= prev
      BY <1>1, <1>5, <2>2 DEF Swept
    <3>2. Clipped(rows[k]).end \in Nat
      <4>1. rows[k] \in Bookings /\ Counts(rows[k])
        BY <1>1 DEF Counted, Counts
      <4>2. QED
        BY <1>1, <4>1, ClippedFacts
    <3>3. QED
      BY <1>3, <1>6, <3>1, <3>2
  <2>3. QED
    BY <2>1, <2>2
<1>16. todo' \subseteq Counted
  BY <1>1, <1>5 DEF Swept
<1>17. Swept'
  <2>1. prev' \in Nat /\ Opens' <= prev' /\ prev' <= Closes'
    BY <1>3, <1>6, <1>8
  <2>2. todo' \subseteq Counted' /\ \A k \in Counted' \ todo' : Clipped(rows[k])'.end <= prev'
    BY <1>14, <1>15, <1>16
  <2>3. \A i \in DOMAIN slots' :
            /\ GoodSlot(slots[i])' /\ slots'[i].end <= prev'
            /\ slots'[i].end < prev' \/ prev' = Closes'
    BY <1>8, <1>10, <1>12
  <2>4. QED
    BY <1>13, <2>1, <2>2, <2>3 DEF Swept
<1>18. OpenDay' /\ pc' = "sweep" /\ rows' = rows
  BY <1>1, <1>5 DEF OpenDay, Sweep
<1>19. QED
  BY <1>1, <1>7, <1>17, <1>18 DEF Inv

\* The end of the loop.
LEMMA FinishStep == Inv /\ Finish => Inv'
<1> SUFFICES ASSUME Inv, Finish PROVE Inv'
  OBVIOUS
<1> DEFINE new == Len(slots) + 1
<1>1. /\ OpenDay /\ Swept /\ todo = {}
      /\ rows \in [BookingIds -> Bookings \union {None}] /\ slots \in Seq(Instants)
  BY DEF Inv, Finish
<1>2. slots' = Found(Closes) /\ pc' = "done" /\ UNCHANGED <<date, reply, rows>>
  BY DEF Finish
<1>3. Closes \in Nat /\ prev \in Nat
  BY <1>1, OpenHours DEF Swept
<1>4. /\ slots' \in Seq(Instants)
      /\ \/ slots' = slots
         \/ /\ Closes > prev /\ Closes - prev >= HourLength
            /\ DOMAIN slots' = DOMAIN slots \union {new}
            /\ \A i \in DOMAIN slots : slots'[i] = slots[i]
            /\ slots'[new] = Gap(prev, Closes)
  BY <1>1, <1>2, <1>3, FoundFacts
<1>5. slots' # slots => GoodSlot(Gap(prev, Closes))
  BY <1>1, <1>3, <1>4, GapIsGood
<1>6. \A i \in DOMAIN slots : GoodSlot(slots[i])
  BY <1>1 DEF Swept
<1> HIDE DEF new
<1>7. \A i \in DOMAIN slots' : GoodSlot(slots'[i])
  BY <1>4, <1>5, <1>6
<1>8. ASSUME NEW s, GoodSlot(s)
      PROVE  GoodSlot(s)'
  BY <1>2, <1>8 DEF GoodSlot, Counts, InHours, OnDate, Clipped, Earliest, Opens, Closes
<1>9. OpenDay'
  BY <1>1, <1>2 DEF OpenDay
<1>10. QED
  BY <1>1, <1>2, <1>4, <1>7, <1>8, <1>9 DEF Inv

LEMMA GetVenueStep == Inv /\ GetVenue => Inv'
<1> SUFFICES ASSUME Inv, GetVenue PROVE Inv'
  OBVIOUS
<1>1. slots = << >> /\ slots' = slots /\ rows' = rows
  BY DEF Inv, GetVenue
<1>2. pc' \in {"bookings", "done", "error"} /\ (pc' = "bookings" => OpenDay')
  BY DEF GetVenue, OpenDay
<1>3. QED
  BY <1>1, <1>2 DEF Inv

LEMMA GetVenueBookingsStep == Inv /\ GetVenueBookings => Inv'
<1> SUFFICES ASSUME Inv, GetVenueBookings PROVE Inv'
  OBVIOUS
<1>1. slots = << >> /\ OpenDay /\ UNCHANGED <<date, reply, slots>> /\ pc' = "sweep"
  BY DEF Inv, GetVenueBookings
<1>2. OpenDay' /\ UNCHANGED <<Opens, Closes>>
  BY <1>1 DEF OpenDay, Opens, Closes
<1>3. /\ rows' \in [BookingIds -> Bookings \union {None}]
      /\ todo' = Counted' /\ prev' = Opens
  BY <1>1 DEF GetVenueBookings, Counted, Counts, InHours, OnDate, Opens, Closes
<1>4. Opens \in Nat /\ Opens <= Closes
  BY <1>1, OpenHours
<1>5. Swept'
  BY <1>1, <1>2, <1>3, <1>4 DEF Swept
<1>6. QED
  BY <1>1, <1>2, <1>3, <1>5 DEF Inv

LEMMA InvIsInvariant == Spec => []Inv
<1>1. Init => Inv
  BY DEF Init, Inv, NoBookings
<1>2. Inv /\ [Next]_vars => Inv'
  <2> SUFFICES ASSUME Inv, [Next]_vars PROVE Inv'
    OBVIOUS
  <2>1. CASE CallFails
    BY <2>1 DEF Inv, CallFails
  <2>2. CASE Respond
    BY <2>2 DEF Inv, Respond, NoBookings
  <2>3. CASE UNCHANGED vars
    <3>1. OpenDay' = OpenDay /\ Swept' = Swept /\ \A s : GoodSlot(s)' = GoodSlot(s)
      BY <2>3 DEF OpenDay, Swept, GoodSlot, Counted, Counts, InHours, OnDate, Clipped,
                  Earliest, Opens, Closes, vars
    <3>2. QED
      BY <2>3, <3>1 DEF Inv, vars
  <2>4. QED
    BY <2>1, <2>2, <2>3, GetVenueStep, GetVenueBookingsStep, SweepStep, FinishStep DEF Next
<1>3. QED
  BY <1>1, <1>2, PTL DEF Spec

(***************************************************************************)
(* The theorems                                                            *)
(***************************************************************************)
\* The sweep never leaves the hours of the venue, and what it finds is in
\* order, before the instant it has reached, an hour or longer each.
THEOREM SweepStaysInHours == Spec => []SweepInHours
<1>1. Inv => SweepInHours
  <2> SUFFICES ASSUME Inv, pc = "sweep"
               PROVE  /\ prev \in Opens .. Closes
                      /\ \A i \in DOMAIN slots :
                             /\ Opens <= slots[i].start /\ slots[i].end <= prev
                             /\ slots[i].end - slots[i].start >= HourLength
                             /\ \A j \in DOMAIN slots :
                                    i < j => slots[i].end < slots[j].start
    BY DEF SweepInHours
  <2>1. Swept /\ OpenDay
    BY DEF Inv
  <2>2. prev \in Opens .. Closes
    BY <2>1, OpenHours DEF Swept
  <2>3. QED
    BY <2>1, <2>2 DEF Swept, GoodSlot
<1>2. QED
  BY <1>1, InvIsInvariant, PTL

\* A slot within the hours that a live booking of one day clashes with has
\* that booking among those that count, and it cuts into the slot.
LEMMA GoodSlotIsFree ==
    ASSUME OpenDay, NEW s \in Instants, GoodSlot(s),
           NEW id \in BookingIds, rows[id] \in Bookings,
           rows[id].status # "cancelled", SameDay(InUtc(rows[id]))
    PROVE  ~Clash(rows[id], s)
<1> DEFINE b == rows[id]
<1>1. /\ s.start \in Nat /\ s.end \in Nat /\ s.start < s.end
      /\ Opens <= s.start /\ s.end <= Closes
  BY LengthAssumption DEF GoodSlot, Instants
<1>2. b.start \in Nat /\ b.end \in Nat /\ b.start < b.end
  BY BookingType
<1> SUFFICES ASSUME Clash(b, s) PROVE FALSE
  OBVIOUS
<1> HIDE DEF b
<1>3. Overlap(b, s)
  BY <1>1, <1>2 DEF Clash, Overlap
<1>4. OnDate(b)
  <2>1. /\ DayOf(b.start, 0) \in Nat /\ DayOf(b.start, 0) = DayOf(b.end, 0)
        /\ DayOf(b.start, 0) * DayLength <= b.start
        /\ b.end < DayOf(b.start, 0) * DayLength + DayLength
    BY <1>2, DayBounds DEF SameDay, InUtc, b
  <2>2. /\ date \in Nat /\ DayLength \in Nat
        /\ date * DayLength <= Opens /\ Closes <= date * DayLength + DayLength
    <3>1. /\ date \in Nat /\ reply.opens \in Nat /\ reply.closes \in Nat
          /\ reply.closes <= DayLength /\ DayLength \in Nat
      BY OpenHours, LengthAssumption
    <3>2. date * DayLength \in Nat
      BY <3>1
    <3>3. QED
      BY <3>1, <3>2 DEF Opens, Closes
  <2> DEFINE c == DayOf(b.start, 0)
             m == c * DayLength
             n == date * DayLength
  <2>3. m \in Nat /\ n \in Nat /\ Opens \in Nat /\ Closes \in Nat
    BY <2>1, <2>2, OpenHours
  <2>4. c < date => m + DayLength <= n
    BY <2>1, <2>2, DaysApart
  <2>5. date < c => n + DayLength <= m
    BY <2>1, <2>2, DaysApart
  <2>6. /\ c \in Nat /\ m <= b.start /\ b.end < m + DayLength
        /\ n <= Opens /\ Closes <= n + DayLength
    BY <2>1, <2>2
  <2> HIDE DEF c, m, n
  <2>7. ~(c < date) /\ ~(date < c)
    BY <1>1, <1>2, <1>3, <2>2, <2>3, <2>4, <2>5, <2>6 DEF Overlap
  <2>8. QED
    BY <2>2, <2>6, <2>7 DEF OnDate, c
<1>5. InHours(b) /\ Overlap(Clipped(b), s)
  BY <1>1, <1>3, ClippedOverlap DEF b
<1>6. Counts(b)
  BY <1>4, <1>5, BookingType DEF Counts, b
<1>7. QED
  BY <1>5, <1>6 DEF GoodSlot, b

LEMMA GoodSlotInSchedule ==
    ASSUME OpenDay, NEW s \in Instants, GoodSlot(s), SameDay(InUtc(s))
    PROVE  ScheduleMatch(reply, InUtc(s))
<1>1. /\ s.start \in Nat /\ s.end \in Nat /\ s.start < s.end
      /\ Opens <= s.start /\ s.end <= Closes
  BY LengthAssumption DEF GoodSlot, Instants
<1>2. /\ date \in Nat /\ reply.opens \in Nat /\ reply.closes \in Nat
      /\ reply.closes <= DayLength /\ DayLength \in Nat
  BY OpenHours, LengthAssumption
<1> DEFINE c == DayOf(s.start, 0)
           m == c * DayLength
           n == date * DayLength
<1>3. /\ c \in Nat /\ c = DayOf(s.end, 0) /\ m \in Nat /\ n \in Nat
      /\ m <= s.start /\ s.start < m + DayLength
  BY <1>1, <1>2, DayBounds DEF SameDay, InUtc
<1>4. (c < date => m + DayLength <= n) /\ (date < c => n + DayLength <= m)
  BY <1>2, <1>3, DaysApart
<1>5. Opens = n + reply.opens /\ Closes = n + reply.closes
  BY DEF Opens, Closes
<1> HIDE DEF c, m, n
<1>6. ~(c < date) /\ ~(date < c)
  BY <1>1, <1>2, <1>3, <1>4, <1>5
<1>7. c = date
  BY <1>2, <1>3, <1>6
<1>8. n = c * DayLength
  BY <1>7 DEF n
<1>9. QED
  BY <1>1, <1>3, <1>5, <1>8 DEF ScheduleMatch, Midnight, InUtc, OpenDay, c

\* Every slot advertised and asked for in UTC passes the schedule check and
\* clashes with no live booking of one day in UTC: the sweep and the conflict query, two codings of one
\* idea, agree.
THEOREM AdvertisedSlotsAreFree == Spec => []AdvertisedIsFree
<1>1. Inv => AdvertisedIsFree
  <2> SUFFICES ASSUME Inv, pc = "done", NEW s \in Range(slots)
               PROVE  /\ SameDay(InUtc(s)) => ScheduleMatch(reply, InUtc(s))
                      /\ \A id \in BookingIds :
                             rows[id] # None /\ rows[id].status # "cancelled"
                             /\ SameDay(InUtc(rows[id])) => ~Clash(rows[id], s)
    BY DEF AdvertisedIsFree
  <2>1. PICK i \in DOMAIN slots : s = slots[i]
    BY DEF Range
  <2>2. slots \in Seq(Instants) /\ slots # << >>
    BY <2>1 DEF Inv
  <2>3. OpenDay /\ s \in Instants /\ GoodSlot(s)
    BY <2>1, <2>2 DEF Inv
  <2>4. SameDay(InUtc(s)) => ScheduleMatch(reply, InUtc(s))
    BY <2>3, GoodSlotInSchedule
  <2>5. \A id \in BookingIds : rows[id] # None => rows[id] \in Bookings
    BY DEF Inv
  <2>6. QED
    BY <2>3, <2>4, <2>5, GoodSlotIsFree
<1>2. QED
  BY <1>1, InvIsInvariant, PTL
(***************************************************************************)
(* Nothing is missed                                                       *)
(***************************************************************************)
\* A slot ends where a booking begins, or the day does, on either side.
Edged(s) ==
    /\ s.start = Opens \/ \E id \in Counted : Clipped(rows[id]).end = s.start
    /\ s.end = Closes \/ \E id \in Counted : Clipped(rows[id]).start = s.end

Covered(s) == \E i \in DOMAIN slots : Within(s, slots[i])

Complete ==
    /\ prev = Opens \/ \E id \in Counted \ todo : Clipped(rows[id]).end = prev
    /\ \A i \in DOMAIN slots : Edged(slots[i])
    /\ \A s \in Instants : GoodSlot(s) /\ s.start < prev => Covered(s)

GapInv ==
    /\ pc = "sweep" => Complete
    /\ pc = "done" /\ reply.enabled =>
           /\ OpenDay
           /\ \A i \in DOMAIN slots : GoodSlot(slots[i]) /\ Edged(slots[i])
           /\ \A s \in Instants : GoodSlot(s) => Covered(s)

\* What the properties of a slot depend on.
LEMMA SameDaySameSlots ==
    ASSUME UNCHANGED <<date, reply, rows>>
    PROVE  /\ \A s : GoodSlot(s)' = GoodSlot(s) /\ Edged(s)' = Edged(s)
           /\ Counted' = Counted /\ Opens' = Opens /\ Closes' = Closes
           /\ \A id \in Counted : Clipped(rows[id])' = Clipped(rows[id])
BY DEF GoodSlot, Edged, Counted, Counts, InHours, OnDate, Clipped, Earliest, Opens, Closes

LEMMA CountedType ==
    ASSUME OpenDay, rows \in [BookingIds -> Bookings \union {None}], NEW id \in Counted
    PROVE  /\ rows[id] \in Bookings /\ Counts(rows[id])
           /\ Clipped(rows[id]).start \in Nat /\ Clipped(rows[id]).end \in Nat
           /\ Opens <= Clipped(rows[id]).start
           /\ Clipped(rows[id]).start <= Clipped(rows[id]).end
           /\ Clipped(rows[id]).end <= Closes
           /\ \/ Clipped(rows[id]).start < Clipped(rows[id]).end
              \/ Clipped(rows[id]).start = Closes \/ Clipped(rows[id]).start = Opens
<1>1. rows[id] \in Bookings /\ Counts(rows[id])
  BY DEF Counted, Counts
<1>2. QED
  BY <1>1, ClippedFacts

\* A slot that begins between prev and the instant the sweep reaches next lies
\* in the gap before the booking it sees.
LEMMA InTheGap ==
    ASSUME OpenDay, rows \in [BookingIds -> Bookings \union {None}], NEW id \in Counted,
           NEW s \in Instants, GoodSlot(s), s.start < Clipped(rows[id]).end
    PROVE  s.end <= Clipped(rows[id]).start
<1> DEFINE c == Clipped(rows[id])
<1>1. /\ c.start \in Nat /\ c.end \in Nat /\ Opens <= c.start /\ c.start <= c.end
      /\ c.end <= Closes
  BY CountedType
<1>2. /\ s.start \in Nat /\ s.end \in Nat /\ Opens <= s.start /\ s.end <= Closes
      /\ ~Overlap(c, s) /\ s.start < c.end
  BY DEF GoodSlot, Instants, Counted
<1> HIDE DEF c
<1>3. ~(c.start < s.end)
  BY <1>1, <1>2 DEF Overlap
<1>4. QED
  BY <1>1, <1>2, <1>3 DEF c

LEMMA FoundCovers ==
    ASSUME slots \in Seq(Instants), prev \in Nat, NEW to \in Nat, NEW s \in Instants
    PROVE  LET after == Found(to) IN
           /\ \A i \in DOMAIN slots : i \in DOMAIN after /\ after[i] = slots[i]
           /\ \A i \in DOMAIN after \ DOMAIN slots : to > prev /\ after[i] = Gap(prev, to)
           /\ prev <= s.start /\ s.end <= to /\ s.end - s.start >= HourLength /\ s.start < s.end
                  => \E i \in DOMAIN after : Within(s, after[i])
<1> DEFINE after == Found(to)
           new == Len(slots) + 1
<1>1. \/ after = slots /\ DOMAIN after = DOMAIN slots
      \/ /\ to > prev /\ to - prev >= HourLength
         /\ DOMAIN after = DOMAIN slots \union {new}
         /\ \A i \in DOMAIN slots : i < new /\ after[i] = slots[i]
         /\ after[new] = Gap(prev, to)
  BY FoundFacts
<1>2. ASSUME prev <= s.start, s.end <= to, s.end - s.start >= HourLength, s.start < s.end
      PROVE  \E i \in DOMAIN after : Within(s, after[i])
  <2>1. s.start \in Nat /\ s.end \in Nat /\ HourLength \in Nat
    BY LengthAssumption DEF Instants
  <2>2. to > prev /\ to - prev >= HourLength
    BY <1>2, <2>1
  <2>3. after = Append(slots, Gap(prev, to))
    BY <2>2 DEF Found
  <2>4. new \in DOMAIN after /\ after[new] = Gap(prev, to)
    BY <2>3
  <2>5. Within(s, Gap(prev, to))
    BY <1>2 DEF Within, Gap
  <2>6. QED
    BY <2>4, <2>5
<1> HIDE DEF after, new
<1>3. QED
  BY <1>1, <1>2 DEF after

LEMMA GapSweep ==
    ASSUME Inv, GapInv, NEW id \in BookingIds, Sweep(id)
    PROVE  GapInv'
<1> DEFINE c == Clipped(rows[id])
<1>1. /\ OpenDay /\ Swept /\ Complete /\ id \in todo /\ id \in Counted
      /\ rows \in [BookingIds -> Bookings \union {None}] /\ slots \in Seq(Instants)
      /\ prev \in Nat
  BY DEF Inv, GapInv, Sweep, Swept
<1>2. /\ slots' = Found(c.start) /\ prev' = Reached(c.end) /\ todo' = todo \ {id}
      /\ UNCHANGED <<date, reply, rows>> /\ pc' = "sweep"
  BY DEF Sweep
<1>3. /\ c.start \in Nat /\ c.end \in Nat /\ Opens \in Nat /\ Closes \in Nat
      /\ c.start <= c.end
  BY <1>1, CountedType, OpenHours
<1>4. prev' = (IF c.end > prev THEN c.end ELSE prev)
  BY <1>2 DEF Reached
<1>5. /\ \A s : GoodSlot(s)' = GoodSlot(s) /\ Edged(s)' = Edged(s)
      /\ Counted' = Counted /\ Opens' = Opens
      /\ \A k \in Counted : Clipped(rows[k])' = Clipped(rows[k])
  BY <1>2, SameDaySameSlots
<1>6. /\ \A i \in DOMAIN slots : i \in DOMAIN slots' /\ slots'[i] = slots[i]
      /\ \A i \in DOMAIN slots' \ DOMAIN slots : slots'[i] = Gap(prev, c.start)
  <2>1. [start |-> 0, end |-> 0] \in Instants
    BY DEF Instants
  <2>2. QED
    BY <1>1, <1>2, <1>3, <2>1, FoundCovers
<1>7. prev' = Opens' \/ \E k \in Counted' \ todo' : Clipped(rows[k])'.end = prev'
  <2>1. CASE c.end > prev
    BY <1>1, <1>2, <1>4, <1>5, <2>1
  <2>2. CASE ~(c.end > prev)
    BY <1>1, <1>2, <1>4, <1>5, <2>2 DEF Complete
  <2>3. QED
    BY <2>1, <2>2
<1>8. \A i \in DOMAIN slots' : Edged(slots'[i])
  <2> SUFFICES ASSUME NEW i \in DOMAIN slots' PROVE Edged(slots'[i])
    OBVIOUS
  <2>1. CASE i \in DOMAIN slots
    BY <1>1, <1>6, <2>1 DEF Complete
  <2>2. CASE i \notin DOMAIN slots
    <3>1. slots'[i] = Gap(prev, c.start)
      BY <1>6, <2>2
    <3>2. prev = Opens \/ \E k \in Counted : Clipped(rows[k]).end = prev
      BY <1>1 DEF Complete
    <3>3. QED
      BY <1>1, <3>1, <3>2 DEF Edged, Gap
  <2>3. QED
    BY <2>1, <2>2
<1>9. ASSUME NEW s \in Instants, GoodSlot(s), s.start < prev'
      PROVE  \E i \in DOMAIN slots' : Within(s, slots'[i])
  <2>1. CASE s.start < prev
    BY <1>1, <1>6, <1>9, <2>1 DEF Complete, Covered
  <2>2. CASE ~(s.start < prev)
    <3>1. s.start \in Nat /\ s.end \in Nat /\ s.end - s.start >= HourLength /\ HourLength \in Nat \ {0}
      BY <1>9, LengthAssumption DEF GoodSlot, Instants
    <3>2. prev <= s.start /\ s.start < c.end /\ s.start < s.end
      BY <1>1, <1>3, <1>4, <1>9, <2>2, <3>1
    <3>3. s.end <= c.start
      BY <1>1, <1>9, <3>2, InTheGap
    <3>4. QED
      BY <1>1, <1>2, <1>3, <3>1, <3>2, <3>3, FoundCovers
  <2>3. QED
    BY <2>1, <2>2
<1> HIDE DEF c
<1>10. Complete'
  BY <1>5, <1>7, <1>8, <1>9 DEF Complete, Covered
<1>11. QED
  BY <1>2, <1>10 DEF GapInv

LEMMA GapFinish == Inv /\ GapInv /\ Finish => GapInv'
<1> SUFFICES ASSUME Inv, GapInv, Finish PROVE GapInv'
  OBVIOUS
<1>1. /\ OpenDay /\ Swept /\ Complete /\ todo = {}
      /\ rows \in [BookingIds -> Bookings \union {None}] /\ slots \in Seq(Instants)
      /\ prev \in Nat /\ Closes \in Nat
  BY OpenHours DEF Inv, GapInv, Finish, Swept
<1>2. slots' = Found(Closes) /\ pc' = "done" /\ UNCHANGED <<date, reply, rows>>
  BY DEF Finish
<1>3. \A s : GoodSlot(s)' = GoodSlot(s) /\ Edged(s)' = Edged(s)
  BY <1>2, SameDaySameSlots
<1>4. /\ \A i \in DOMAIN slots : i \in DOMAIN slots' /\ slots'[i] = slots[i]
      /\ \A i \in DOMAIN slots' \ DOMAIN slots : Closes > prev /\ slots'[i] = Gap(prev, Closes)
  <2>1. [start |-> 0, end |-> 0] \in Instants
    BY DEF Instants
  <2>2. QED
    BY <1>1, <1>2, <2>1, FoundCovers
<1>5. \A i \in DOMAIN slots' : Edged(slots'[i])
  <2> SUFFICES ASSUME NEW i \in DOMAIN slots' PROVE Edged(slots'[i])
    OBVIOUS
  <2>1. CASE i \in DOMAIN slots
    BY <1>1, <1>4, <2>1 DEF Complete
  <2>2. CASE i \notin DOMAIN slots
    <3>1. prev = Opens \/ \E k \in Counted : Clipped(rows[k]).end = prev
      BY <1>1 DEF Complete
    <3>2. QED
      BY <1>4, <2>2, <3>1 DEF Edged, Gap
  <2>3. QED
    BY <2>1, <2>2
<1>6. OpenDay' /\ \A i \in DOMAIN slots' : GoodSlot(slots[i])'
  <2>1. Inv'
    BY FinishStep
  <2>2. OpenDay'
    BY <1>1, <1>2 DEF OpenDay
  <2>3. QED
    BY <1>2, <2>1, <2>2 DEF Inv
<1>7. ASSUME NEW s \in Instants, GoodSlot(s)
      PROVE  \E i \in DOMAIN slots' : Within(s, slots'[i])
  <2>1. CASE s.start < prev
    BY <1>1, <1>4, <1>7, <2>1 DEF Complete, Covered
  <2>2. CASE ~(s.start < prev)
    <3>1. /\ s.start \in Nat /\ s.end \in Nat /\ s.end - s.start >= HourLength
          /\ s.end <= Closes /\ HourLength \in Nat \ {0}
      BY <1>7, LengthAssumption DEF GoodSlot, Instants
    <3>2. prev <= s.start /\ s.start < s.end
      BY <1>1, <2>2, <3>1
    <3>3. QED
      BY <1>1, <1>2, <3>1, <3>2, FoundCovers
  <2>3. QED
    BY <2>1, <2>2
<1>8. QED
  BY <1>2, <1>3, <1>5, <1>6, <1>7 DEF GapInv, Covered

LEMMA GapBookings == Inv /\ GapInv /\ GetVenueBookings => GapInv'
<1> SUFFICES ASSUME Inv, GapInv, GetVenueBookings PROVE GapInv'
  OBVIOUS
<1>1. /\ slots = << >> /\ slots' = slots /\ pc' = "sweep" /\ OpenDay
      /\ prev' = Opens /\ UNCHANGED <<date, reply>>
  BY DEF Inv, GetVenueBookings
<1>2. Opens' = Opens /\ Opens \in Nat
  BY <1>1, OpenHours DEF Opens
<1>3. \A s \in Instants : GoodSlot(s)' => ~(s.start < prev')
  <2> SUFFICES ASSUME NEW s \in Instants, GoodSlot(s)' PROVE ~(s.start < prev')
    OBVIOUS
  <2>1. Opens' <= s.start
    BY DEF GoodSlot
  <2>2. QED
    BY <1>1, <1>2, <2>1 DEF Instants
<1>4. Complete'
  BY <1>1, <1>2, <1>3 DEF Complete
<1>5. QED
  BY <1>1, <1>4 DEF GapInv

LEMMA GapInvIsInvariant == Spec => [](Inv /\ GapInv)
<1>1. Init => GapInv
  BY DEF Init, GapInv
<1>2. Inv /\ GapInv /\ [Next]_vars => GapInv'
  <2> SUFFICES ASSUME Inv, GapInv, [Next]_vars PROVE GapInv'
    OBVIOUS
  <2>1. CASE GetVenue
    BY <2>1 DEF GetVenue, GapInv
  <2>2. CASE CallFails \/ Respond
    BY <2>2 DEF CallFails, Respond, GapInv
  <2>3. CASE UNCHANGED vars
    <3>1. \A s : GoodSlot(s)' = GoodSlot(s) /\ Edged(s)' = Edged(s)
      BY <2>3, SameDaySameSlots DEF vars
    <3>2. Complete' = Complete /\ OpenDay' = OpenDay /\ \A s : Covered(s)' = Covered(s)
      BY <2>3, <3>1 DEF vars, Complete, OpenDay, Covered, GoodSlot, Edged, Counted, Counts,
                    InHours, OnDate, Clipped, Earliest, Opens, Closes
    <3>3. QED
      BY <2>3, <3>1, <3>2 DEF GapInv, vars
  <2>4. QED
    BY <2>1, <2>2, <2>3, GapBookings, GapSweep, GapFinish DEF Next
<1>3. QED
  BY <1>1, <1>2, InvIsInvariant, PTL DEF Spec

\* The free stretches are the good slots.
LEMMA FreeIsGood ==
    ASSUME OpenDay, rows \in [BookingIds -> Bookings \union {None}]
    PROVE  \A s : s \in Free <=> s \in Instants /\ GoodSlot(s)
<1>1. Opens \in Nat /\ Closes \in Nat
  BY OpenHours
<1>2. ASSUME NEW s \in Instants,
             Opens <= s.start, s.end <= Closes, s.start < s.end, NEW id \in BookingIds
      PROVE  (Counts(rows[id]) => ~Overlap(Clipped(rows[id]), s))
             <=> (rows[id] # None /\ rows[id].status # "cancelled" /\ OnDate(rows[id])
                      => ~Overlap(rows[id], s))
  <2>1. CASE rows[id] = None
    BY <2>1 DEF Counts
  <2>2. CASE rows[id] # None
    <3>1. rows[id] \in Bookings
      BY <2>2
    <3>2. Overlap(rows[id], s) => InHours(rows[id]) /\ Overlap(Clipped(rows[id]), s)
      BY <1>2, <3>1, ClippedOverlap
    <3>3. ASSUME Counts(rows[id]), Overlap(Clipped(rows[id]), s) PROVE Overlap(rows[id], s)
      <4> DEFINE b == rows[id]
                 c == Clipped(b)
                 o == Opens
                 e == Closes
      <4>1. b.start \in Nat /\ b.end \in Nat /\ s.start \in Nat /\ s.end \in Nat
        BY <3>1, BookingType DEF Instants
      <4>2. /\ c.start = (IF b.start < o THEN o ELSE b.start)
            /\ c.end = (IF e < b.end THEN e ELSE b.end)
        BY DEF Clipped, Earliest
      <4>3. c.start < s.end /\ s.start < c.end /\ o \in Nat /\ e \in Nat
        BY <1>1, <3>3 DEF Overlap
      <4> HIDE DEF c, o, e, b
      <4>4. b.start < s.end /\ s.start < b.end
        BY <4>1, <4>2, <4>3
      <4>5. QED
        BY <4>4 DEF Overlap, b
    <3>4. QED
      BY <2>2, <3>2, <3>3 DEF Counts
  <2>3. QED
    BY <2>1, <2>2
<1>3. ASSUME NEW s, s \in Instants, GoodSlot(s) PROVE s \in Free
  <2>1. /\ s.start \in Nat /\ s.end \in Nat /\ s.end - s.start >= HourLength
        /\ HourLength \in Nat \ {0} /\ Opens <= s.start /\ s.end <= Closes
    BY <1>3, LengthAssumption DEF GoodSlot, Instants
  <2>2. s.start < s.end
    BY <2>1
  <2>3. s \in [start : Opens .. Closes, end : Opens .. Closes]
    BY <1>1, <1>3, <2>1, <2>2 DEF Instants
  <2>4. QED
    BY <1>2, <1>3, <2>1, <2>2, <2>3 DEF Free, GoodSlot
<1>4. ASSUME NEW s, s \in Free PROVE s \in Instants /\ GoodSlot(s)
  <2>1. s \in [start : Opens .. Closes, end : Opens .. Closes] /\ s.end - s.start >= HourLength
    BY <1>4 DEF Free
  <2>2. s \in Instants /\ Opens <= s.start /\ s.end <= Closes
    BY <1>1, <2>1 DEF Instants
  <2>3. s.start < s.end
    BY <1>1, <2>1, LengthAssumption
  <2>4. QED
    BY <1>2, <1>4, <2>1, <2>2, <2>3 DEF Free, GoodSlot
<1>5. QED
  BY <1>3, <1>4

\* A good slot with a booking or an end of the day at both sides lies in no
\* longer one.
LEMMA EdgedIsLongest ==
    ASSUME OpenDay, rows \in [BookingIds -> Bookings \union {None}],
           NEW s \in Instants, GoodSlot(s), Edged(s),
           NEW t \in Instants, GoodSlot(t), Within(s, t)
    PROVE  s = t
<1>1. /\ s.start \in Nat /\ s.end \in Nat /\ t.start \in Nat /\ t.end \in Nat
      /\ Opens \in Nat /\ Closes \in Nat
      /\ Opens <= t.start /\ t.end <= Closes /\ t.start <= s.start /\ s.end <= t.end
      /\ s.end - s.start >= HourLength /\ HourLength \in Nat \ {0}
      /\ Opens <= s.start /\ s.end <= Closes
  BY OpenHours, LengthAssumption DEF GoodSlot, Within, Instants
<1>2. s.start = t.start
  <2>1. CASE s.start = Opens
    BY <1>1, <2>1
  <2>2. ASSUME NEW id \in Counted, Clipped(rows[id]).end = s.start PROVE s.start = t.start
    <3> DEFINE c == Clipped(rows[id])
    <3>1. c.start \in Nat /\ c.end \in Nat /\ c.start <= c.end /\ ~Overlap(c, t)
      BY CountedType DEF GoodSlot, Counted
    <3>2. c.end = s.start
      BY <2>2
    <3> HIDE DEF c
    <3>3. QED
      BY <1>1, <3>1, <3>2 DEF Overlap
  <2>3. QED
    BY <2>1, <2>2 DEF Edged
<1>3. s.end = t.end
  <2>1. CASE s.end = Closes
    BY <1>1, <2>1
  <2>2. ASSUME NEW id \in Counted, Clipped(rows[id]).start = s.end PROVE s.end = t.end
    <3> DEFINE c == Clipped(rows[id])
    <3>1. c.start \in Nat /\ c.end \in Nat /\ c.start <= c.end /\ ~Overlap(c, t)
      BY CountedType DEF GoodSlot, Counted
    <3>2. c.start = s.end
      BY <2>2
    <3> HIDE DEF c
    <3>3. QED
      BY <1>1, <3>1, <3>2 DEF Overlap
  <2>3. QED
    BY <2>1, <2>2 DEF Edged
<1>4. QED
  BY <1>2, <1>3 DEF Instants

\* The answer is exactly the longest free stretches of the day: the sweep
\* misses none, and cuts none short, however the bookings lie.
THEOREM SlotsAreAllTheGaps == Spec => []SlotsAreTheGaps
<1>1. Inv /\ GapInv => SlotsAreTheGaps
  <2> SUFFICES ASSUME Inv, GapInv, pc = "done", reply.enabled
               PROVE  Range(slots) = {s \in Free : \A t \in Free : Within(s, t) => s = t}
    BY DEF SlotsAreTheGaps
  <2>1. /\ OpenDay
        /\ \A i \in DOMAIN slots : GoodSlot(slots[i]) /\ Edged(slots[i])
        /\ \A s \in Instants : GoodSlot(s) => Covered(s)
    BY DEF GapInv
  <2>2. rows \in [BookingIds -> Bookings \union {None}]
    BY DEF Inv
  <2>3. \A i \in DOMAIN slots : slots[i] \in Instants
    <3>1. slots \in Seq(Instants)
      BY DEF Inv
    <3>2. QED
      BY <3>1
  <2>4. \A s : s \in Free <=> s \in Instants /\ GoodSlot(s)
    BY <2>1, <2>2, FreeIsGood
  <2>5. ASSUME NEW s \in Range(slots)
        PROVE  s \in Free /\ \A t \in Free : Within(s, t) => s = t
    <3>1. s \in Instants /\ GoodSlot(s) /\ Edged(s)
      BY <2>1, <2>3, <2>5 DEF Range
    <3>2. QED
      BY <2>1, <2>2, <2>4, <3>1, EdgedIsLongest
  <2>6. ASSUME NEW s \in Free, \A t \in Free : Within(s, t) => s = t
        PROVE  s \in Range(slots)
    <3>1. PICK i \in DOMAIN slots : Within(s, slots[i])
      BY <2>1, <2>4, <2>6 DEF Covered
    <3>2. slots[i] \in Free
      BY <2>1, <2>3, <2>4
    <3>3. QED
      BY <2>6, <3>1, <3>2 DEF Range
  <2>7. QED
    BY <2>5, <2>6
<1>2. QED
  BY <1>1, GapInvIsInvariant, PTL
===============================================================================
