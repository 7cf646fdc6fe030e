----------------------- MODULE ReservationSerialProofs -----------------------
(***************************************************************************)
(* What Reservation keeps when no two requests are between a read and the  *)
(* write that relies on it, for any number of handlers and bookings and    *)
(* any requests, patches and venue replies: the checks of the code are     *)
(* sound, and it is their interleaving that is not.  Requests served one   *)
(* at a time are the case the code is written for.                         *)
(***************************************************************************)
EXTENDS ReservationProofs

USE DEF Step, locals, topics

OneAtATime == \A g, h \in Handlers : g = h

\* From the read a request relies on to the write it makes of it: a creation
\* from its last check, a cancellation and an update from their first read.
Critical == {"c_insert", "x_save"} \union Updating

\* No two requests are there together with one booking, or with one venue
\* unless one of them cancels: a lock on the booking and one on the venue would
\* see to it.  They overlap as they like elsewhere, while they check a schedule,
\* price a booking or send an event.
Exclusive ==
    \A g, h \in Handlers :
        g # h /\ pc[g] \in Critical /\ pc[h] \in Critical =>
            /\ bid[g] = bid[h] => bid[g] = None
            /\ mem[g].venue = mem[h].venue => "x_save" \in {pc[g], pc[h]}

\* Bookings of a venue, cancelled ones included, never overlap.
Apart ==
    \A i, j \in BookingIds :
        /\ i # j /\ Stored(i) /\ Stored(j)
        /\ rows[i].venue = rows[j].venue
        => ~Overlap(rows[i], rows[j])

\* The slot a handler validates is the one it holds, on one day.
Chosen(h) == SlotOf(goal[h]) = SlotOf(mem[h]) /\ SameDay(goal[h])

Scheduled(h) == \E reply \in VenueReplies : ScheduleMatch(reply, goal[h])

\* The steps after the check of the schedule, up to the write.
Checked == {"c_check", "c_price", "c_txcheck", "c_insert", "u_check", "u_save"}

\* What a handler holds still agrees with the table, and the slot it is about
\* to write is the one it validated: on one day, within the hours, and free.
Fresh(h) ==
    /\ pc[h] \in Creating \union {"idle"} => bid[h] = None
    /\ pc[h] \in Creating \union (Updating \ {"u_reread"}) => Chosen(h)
    /\ pc[h] \in Checked => Scheduled(h)
    /\ pc[h] = "c_insert" => ~Conflicts(goal[h], None)
    /\ pc[h] \in Updating => mem[h] = Merge(rows[bid[h]], patch[h])
    /\ pc[h] = "u_save" => ~Conflicts(goal[h], bid[h])
    /\ pc[h] = "x_save" =>
           /\ ~Final(rows[bid[h]])
           /\ mem[h] = [rows[bid[h]] EXCEPT !.status = "cancelled"]

SerialInv ==
    /\ Apart
    /\ WithinADaysHours
    /\ \A h \in Handlers : Fresh(h)

\* The three disjuncts of the WHERE clause say that two bookings overlap.
THEOREM ClashIsOverlap ==
    ASSUME NEW r \in Row, NEW s \in Slot, r.start < r.end, s.start < s.end
    PROVE  Clash(r, s) <=> Overlap(r, s)
  BY TimeAssumption DEF Row, Slot, Times, Clash, Overlap

\* No clock matters to the conflict check.
LEMMA ConflictsOfSlot ==
    ASSUME NEW s, NEW r, NEW e, SlotOf(s) = SlotOf(r)
    PROVE  Conflicts(s, e) <=> Conflicts(SlotOf(r), e)
  <1>1. s.venue = SlotOf(r).venue /\ s.start = SlotOf(r).start /\ s.end = SlotOf(r).end
    BY DEF SlotOf
  <1>2. QED
    BY <1>1 DEF Conflicts, Clash

\* The day an instant falls on and the time of day make the instant.
LEMMA ClockReading ==
    ASSUME NEW t \in Int, NEW zone \in Int
    PROVE  /\ TimeOfDay(t, zone) = t - Midnight(t, zone)
           /\ TimeOfDay(t, zone) \in 0 .. DayLength - 1
           /\ DayOf(t, zone) \in Int /\ Midnight(t, zone) \in Int
  <1>1. ASSUME NEW a \in Int
        PROVE  (a \div DayLength) * DayLength + (a % DayLength) = a
    BY LengthAssumption
  <1>2. ASSUME NEW a \in Int
        PROVE  a % DayLength \in 0 .. DayLength - 1 /\ a \div DayLength \in Int
    BY LengthAssumption
  <1> DEFINE q == (t + zone) \div DayLength
             m == q * DayLength
  <1>3. q \in Int /\ m \in Int
    BY <1>2, LengthAssumption
  <1>4. m + ((t + zone) % DayLength) = t + zone
    BY <1>1
  <1>5. (t + zone) % DayLength \in 0 .. DayLength - 1
    BY <1>2
  <1>6. DayOf(t, zone) = q /\ Midnight(t, zone) = m - zone
        /\ TimeOfDay(t, zone) = (t + zone) % DayLength
    BY DEF DayOf, Midnight, TimeOfDay
  <1> HIDE DEF q, m
  <1>7. QED
    BY <1>3, <1>4, <1>5, <1>6, LengthAssumption

\* A row whose slot passed the checks has its two clocks.
LEMMA PassedIsWithin ==
    ASSUME NEW w \in Wanted, NEW r \in Row, SlotOf(w) = SlotOf(r), SameDay(w),
           NEW reply \in VenueReplies, ScheduleMatch(reply, w)
    PROVE  \E from, to \in Offsets : OnOneDay(r, from, to)
  <1> DEFINE from == w.startZone
             to == w.endZone
  <1>1. /\ from \in Offsets /\ to \in Offsets /\ from \in Int /\ to \in Int
        /\ r.start \in Int /\ r.end \in Int
    <2>1. Offsets \subseteq Int /\ Times \subseteq Int
      BY ZoneAssumption, TimeAssumption DEF Offsets, Times
    <2>2. w.startZone \in Offsets /\ w.endZone \in Offsets
      BY DEF Wanted
    <2>3. r.start \in Times /\ r.end \in Times
      BY DEF Row
    <2>4. QED
      BY <2>1, <2>2, <2>3
  <1>2. w.start = r.start /\ w.end = r.end
    BY DEF SlotOf
  <1>3. DayOf(r.start, from) = DayOf(r.end, to)
    BY <1>2 DEF SameDay
  <1>4. /\ reply.enabled /\ reply.opens # None /\ reply.closes # None
        /\ r.start >= Midnight(r.start, from) + reply.opens
        /\ r.end <= Midnight(r.end, to) + reply.closes
    BY <1>2 DEF ScheduleMatch
  <1>5. reply.opens \in Nat /\ reply.closes \in Nat
    BY <1>4, InputAssumption DEF Reply
  <1> HIDE DEF from, to
  <1>6. /\ TimeOfDay(r.start, from) = r.start - Midnight(r.start, from)
        /\ TimeOfDay(r.end, to) = r.end - Midnight(r.end, to)
        /\ Midnight(r.start, from) \in Int /\ Midnight(r.end, to) \in Int
    BY <1>1, ClockReading
  <1>7. reply.opens <= TimeOfDay(r.start, from) /\ TimeOfDay(r.end, to) <= reply.closes
    BY <1>1, <1>4, <1>5, <1>6
  <1>8. QED
    BY <1>1, <1>3, <1>4, <1>7 DEF OnOneDay

\* So has the row a handler is about to write.
LEMMA FreshIsWithin ==
    ASSUME Inv, NEW h \in Handlers, Fresh(h), pc[h] \in {"c_insert", "u_save"}
    PROVE  \E from, to \in Offsets : OnOneDay(mem[h], from, to)
  <1>1. goal[h] \in Wanted /\ mem[h] \in Row
    BY DEF Inv, TypeOK, Equipped, Creating, Updating
  <1>2. SlotOf(goal[h]) = SlotOf(mem[h]) /\ SameDay(goal[h])
    BY DEF Fresh, Chosen, Creating, Updating
  <1>3. PICK reply \in VenueReplies : ScheduleMatch(reply, goal[h])
    BY DEF Fresh, Scheduled, Checked
  <1>4. QED
    BY <1>1, <1>2, <1>3, PassedIsWithin

\* A row written onto a slot without conflicts keeps the bookings apart.
LEMMA WriteApart ==
    ASSUME Inv, Apart, NEW id \in BookingIds, NEW row \in Row, row.start < row.end,
           ~Conflicts(SlotOf(row), id), rows' = [rows EXCEPT ![id] = row]
    PROVE  Apart'
  <1>1. SlotOf(row) \in Slot /\ row # None
    BY NoneAssumption DEF SlotOf, Slot, Row
  <1>2. ASSUME NEW j \in BookingIds, j # id, Stored(j), rows[j].venue = row.venue
        PROVE  ~Overlap(rows[j], row) /\ ~Overlap(row, rows[j])
    <2>1. rows[j] \in Row /\ rows[j].start < rows[j].end
      BY <1>2 DEF Inv, TypeOK, Ordered, StartBeforeEnd, Stored
    <2>2. ~Clash(rows[j], SlotOf(row))
      BY <1>2 DEF Conflicts, SlotOf
    <2>3. ~Overlap(rows[j], SlotOf(row))
      BY <1>1, <2>1, <2>2, ClashIsOverlap DEF SlotOf
    <2>4. QED
      BY <2>3 DEF Overlap, SlotOf
  <1>3. \A j \in BookingIds : rows'[j] = IF j = id THEN row ELSE rows[j]
    BY DEF Inv, TypeOK
  <1>4. QED
    BY <1>1, <1>2, <1>3 DEF Apart, Stored

LEMMA SerialInit == Init => SerialInv
  BY DEF Init, Nobody, SerialInv, Apart, WithinADaysHours, Fresh, Stored, Creating, Updating, Checked

Acts(h) == Create(h) \/ Cancel(h) \/ Update(h) \/ Refuse(h) \/ CallFails(h) \/ Respond(h)

\* A handler leaves what the others hold alone.
LEMMA ActsAlone ==
    ASSUME Inv, NEW h \in Handlers, Acts(h), NEW k \in Handlers \ {h}
    PROVE  /\ pc'[k] = pc[k] /\ bid'[k] = bid[k] /\ mem'[k] = mem[k]
           /\ goal'[k] = goal[k] /\ patch'[k] = patch[k]
  <1> USE DEF Inv, TypeOK
  <1>1. CASE Create(h)
    BY <1>1 DEF Create, CreateReservation, CreateSchedule, CreateCheck, CreatePrice, CreateTxCheck,
                InsertStored, InsertRolledBack, PublishCreated, CheckSchedule, CheckConflicts
  <1>2. CASE Cancel(h)
    BY <1>2 DEF Cancel, ReservationCancel, CancelSave, SaveRow, PublishCancelled
  <1>3. CASE Update(h)
    BY <1>3 DEF Update, ReservationUpdate, UpdateReread, UpdateSchedule, UpdateCheck, UpdateSave,
                UpdateRefused, CheckSchedule, CheckConflicts, SaveRow
  <1>4. CASE Refuse(h) \/ CallFails(h) \/ Respond(h)
    BY <1>4 DEF Refuse, CallFails, Respond, Forget
  <1>5. QED
    BY <1>1, <1>2, <1>3, <1>4 DEF Acts

\* It writes one row, the one it holds, onto a new booking or onto its own.
LEMMA ActsWrite ==
    ASSUME Inv, NEW h \in Handlers, Acts(h), rows' # rows
    PROVE  /\ pc[h] \in {"c_insert", "x_save", "u_save"} /\ mem[h] \in Row
           /\ \E id \in BookingIds :
                  /\ rows' = [rows EXCEPT ![id] = mem[h]]
                  /\ IF pc[h] = "c_insert" THEN ~Stored(id) ELSE id = bid[h] /\ Stored(id)
  <1> USE DEF Inv, TypeOK, Equipped, Creating, Updating, Announcing
  <1>1. CASE Create(h)
    <2>1. InsertStored(h)
      BY <1>1 DEF Create, CreateReservation, CreateSchedule, CreateCheck, CreatePrice,
                  CreateTxCheck, InsertRolledBack, PublishCreated, CheckSchedule, CheckConflicts
    <2>2. QED
      BY <2>1 DEF InsertStored
  <1>2. CASE Cancel(h)
    <2>1. CancelSave(h)
      BY <1>2 DEF Cancel, ReservationCancel, PublishCancelled
    <2>2. QED
      BY <2>1 DEF CancelSave, SaveRow
  <1>3. CASE Update(h)
    <2>1. UpdateSave(h)
      BY <1>3 DEF Update, ReservationUpdate, UpdateReread, UpdateSchedule, UpdateCheck,
                  UpdateRefused, CheckSchedule, CheckConflicts
    <2>2. QED
      BY <2>1 DEF UpdateSave, SaveRow
  <1>4. CASE Refuse(h) \/ CallFails(h) \/ Respond(h)
    BY <1>4 DEF Refuse, CallFails, Respond
  <1>5. QED
    BY <1>1, <1>2, <1>3, <1>4 DEF Acts

\* What another handler relies on stays so: while it is between its read and
\* its write, nobody writes its booking, and nobody takes a slot of its venue.
LEMMA OthersFresh ==
    ASSUME Exclusive, Inv, SerialInv, NEW h \in Handlers, Acts(h),
           NEW k \in Handlers, k # h
    PROVE  Fresh(k)'
  <1> USE DEF Critical, Updating
  <1>1. /\ pc'[k] = pc[k] /\ bid'[k] = bid[k] /\ mem'[k] = mem[k]
        /\ goal'[k] = goal[k] /\ patch'[k] = patch[k]
    BY ActsAlone
  <1>2. Fresh(k) /\ Fresh(h)
    BY DEF SerialInv
  <1>3. CASE rows' = rows \/ pc[k] \notin Critical
    BY <1>1, <1>2, <1>3 DEF Fresh, Chosen, Scheduled, Conflicts, Stored
  <1>4. CASE rows' # rows /\ pc[k] \in Critical
    <2>1. /\ pc[h] \in {"c_insert", "x_save", "u_save"} /\ mem[h] \in Row
          /\ bid[h] = bid[k] => bid[h] = None
          /\ mem[h].venue = mem[k].venue => pc[h] = "x_save" \/ pc[k] = "x_save"
      BY <1>4, ActsWrite DEF Exclusive
    <2>2. PICK id \in BookingIds :
              /\ rows' = [rows EXCEPT ![id] = mem[h]]
              /\ IF pc[h] = "c_insert" THEN ~Stored(id) ELSE id = bid[h] /\ Stored(id)
      BY <1>4, ActsWrite
    <2>3. \A j \in BookingIds : rows'[j] = IF j = id THEN mem[h] ELSE rows[j]
      BY <2>2 DEF Inv, TypeOK
    <2>4. pc[k] # "c_insert" => bid[k] \in BookingIds /\ bid[k] # id
      <3>1. pc[k] # "c_insert" => bid[k] \in BookingIds /\ Stored(bid[k]) /\ bid[k] # None
        BY <1>4, NoneAssumption DEF Inv, TypeOK, Equipped
      <3>2. QED
        BY <2>1, <2>2, <3>1
    <2>5. \A e : /\ pc[k] \in {"c_insert", "u_save"} /\ Chosen(k)
                 /\ ~Conflicts(goal[k], e)
                 => ~Conflicts(goal[k], e)'
      <3> SUFFICES ASSUME NEW e, pc[k] \in {"c_insert", "u_save"}, Chosen(k),
                          ~Conflicts(goal[k], e),
                          NEW j \in BookingIds \ {e}, Stored(j)', rows'[j].venue = goal[k].venue,
                          Clash(rows'[j], goal[k])
                   PROVE  FALSE
        BY <1>1 DEF Conflicts
      <3>1. CASE j # id
        BY <2>3, <3>1 DEF Conflicts, Stored
      <3>2. CASE j = id
        <4>1. pc[h] = "x_save"
          BY <2>1, <2>3, <3>2 DEF Chosen, SlotOf
        <4>2. Stored(id) /\ id = bid[h] /\ mem[h] = [rows[id] EXCEPT !.status = "cancelled"]
          BY <1>2, <2>2, <4>1 DEF Fresh
        <4>3. rows[id] \in Row
          BY <4>2 DEF Inv, TypeOK, Stored
        <4>4. /\ mem[h].venue = rows[id].venue
              /\ mem[h].start = rows[id].start /\ mem[h].end = rows[id].end
          BY <4>2, <4>3 DEF Row
        <4>5. rows[id].venue = goal[k].venue /\ Clash(rows[id], goal[k])
          <5>1. rows'[id] = mem[h]
            BY <2>3
          <5>2. mem[h].venue = goal[k].venue /\ Clash(mem[h], goal[k])
            BY <3>2, <5>1
          <5>3. QED
            BY <4>4, <5>2 DEF Clash
        <4>6. QED
          BY <3>2, <4>2, <4>5 DEF Conflicts
      <3>3. QED
        BY <3>1, <3>2
    <2>6. QED
      BY <1>1, <1>2, <1>4, <2>3, <2>4, <2>5 DEF Fresh, Chosen, Scheduled, Creating, Checked
  <1>5. QED
    BY <1>3, <1>4

LEMMA SerialCreate ==
    ASSUME Exclusive, Inv, SerialInv, NEW h \in Handlers, Create(h)
    PROVE  SerialInv'
  <1> USE DEF Creating, Updating, Checked
  <1>1. SUFFICES Apart' /\ WithinADaysHours' /\ Fresh(h)'
    BY OthersFresh DEF SerialInv, Acts
  <1>2. CASE InsertStored(h)
    <2>1. PICK id \in BookingIds :
              /\ ~Stored(id) /\ pc[h] = "c_insert" /\ pc'[h] \in {"c_publish", "error"}
              /\ rows' = [rows EXCEPT ![id] = mem[h]]
      BY <1>2 DEF InsertStored, Inv, TypeOK
    <2>2. mem[h] \in Row /\ mem[h].start < mem[h].end /\ SlotOf(goal[h]) = SlotOf(mem[h])
      BY <2>1, NoneAssumption
         DEF Inv, TypeOK, Ordered, Equipped, SerialInv, Fresh, Chosen
    <2>3. ~Conflicts(SlotOf(mem[h]), id)
      <3>1. ~Conflicts(goal[h], None)
        BY <2>1 DEF SerialInv, Fresh
      <3>2. ~Conflicts(goal[h], id)
        BY <2>1, <3>1, NoneAssumption DEF Conflicts
      <3>3. QED
        BY <2>2, <3>2, ConflictsOfSlot
    <2>4. Apart'
      BY <2>1, <2>2, <2>3, WriteApart DEF SerialInv
    <2>5. WithinADaysHours'
      <3>1. \E from, to \in Offsets : OnOneDay(mem[h], from, to)
        BY <2>1, FreshIsWithin DEF SerialInv
      <3>2. QED
        BY <2>1, <3>1 DEF SerialInv, WithinADaysHours, Stored, Inv, TypeOK
    <2>6. QED
      BY <2>1, <2>4, <2>5 DEF Fresh
  <1>3. CASE ~InsertStored(h)
    <2>1. rows' = rows
      BY <1>2, <1>3 DEF Create, CreateReservation, CreateSchedule, CreateCheck, CreatePrice,
               CreateTxCheck, InsertRolledBack, PublishCreated, CheckSchedule, CheckConflicts
    <2>2. Apart' /\ WithinADaysHours'
      BY <2>1 DEF SerialInv, Apart, WithinADaysHours, Stored
    <2>3. Fresh(h)'
      <3> USE DEF Inv, TypeOK, SerialInv, Fresh
      <3>1. CASE CreateReservation(h)
        <4>1. PICK q \in Requests :
                  /\ SameDay(q) /\ pc[h] = "idle" /\ pc'[h] = "c_schedule"
                  /\ mem'[h] = NewRow(q) /\ goal'[h] = OnClocks(q, q.startZone, q.endZone)
                  /\ bid'[h] = bid[h]
          BY <3>1 DEF CreateReservation, ValidRequest
        <4>2. SlotOf(goal'[h]) = SlotOf(mem'[h])
          BY <4>1 DEF NewRow, OnClocks, SlotOf
        <4>3. SameDay(goal'[h])
          BY <4>1 DEF OnClocks, SameDay
        <4>4. QED
          BY <4>1, <4>2, <4>3 DEF Chosen
      <3>2. CASE CreateSchedule(h)
        BY <3>2 DEF CreateSchedule, CheckSchedule, Chosen, Scheduled
      <3>3. CASE CreateCheck(h)
        BY <3>3 DEF CreateCheck, CheckConflicts, AfterCheck, Chosen, Scheduled
      <3>4. CASE CreatePrice(h)
        BY <3>4 DEF CreatePrice, Priced, SlotOf, Equipped, Row, Chosen, Scheduled
      <3>5. CASE CreateTxCheck(h)
        BY <3>5, <2>1
           DEF CreateTxCheck, CheckConflicts, AfterCheck, Conflicts, Stored, Chosen, Scheduled
      <3>6. CASE InsertRolledBack(h) \/ PublishCreated(h)
        BY <3>6 DEF InsertRolledBack, PublishCreated
      <3>7. QED
        BY <1>3, <3>1, <3>2, <3>3, <3>4, <3>5, <3>6 DEF Create
    <2>4. QED
      BY <2>2, <2>3
  <1>4. QED
    BY <1>2, <1>3

LEMMA SerialCancel ==
    ASSUME Exclusive, Inv, SerialInv, NEW h \in Handlers, Cancel(h)
    PROVE  SerialInv'
  <1> USE DEF Creating, Updating, Checked
  <1>1. SUFFICES Apart' /\ WithinADaysHours' /\ Fresh(h)'
    BY OthersFresh DEF SerialInv, Acts
  <1>2. CASE CancelSave(h)
    <2>1. PICK o \in WriteOutcomes :
              /\ pc[h] = "x_save" /\ pc'[h] \in {"x_publish", "error"}
              /\ rows' = IF o.stored THEN [rows EXCEPT ![bid[h]] = mem[h]] ELSE rows
      BY <1>2 DEF CancelSave, SaveRow, Inv, TypeOK
    <2>2. /\ bid[h] \in BookingIds /\ Stored(bid[h])
          /\ mem[h] = [rows[bid[h]] EXCEPT !.status = "cancelled"]
      BY <2>1 DEF Inv, TypeOK, Equipped, SerialInv, Fresh
    <2>3. rows[bid[h]] \in Row
      BY <2>2 DEF Inv, TypeOK, Stored
    <2>4. \A id \in BookingIds :
              /\ Stored(id) <=> Stored(id)'
              /\ Stored(id) => SlotOf(rows'[id]) = SlotOf(rows[id])
      <3>1. mem[h] \in Row /\ SlotOf(mem[h]) = SlotOf(rows[bid[h]])
        BY <2>2, <2>3 DEF SlotOf, Row, Statuses
      <3>2. QED
        BY <2>1, <2>2, <3>1, NoneAssumption DEF Inv, TypeOK, Stored
    <2>5. Apart' /\ WithinADaysHours'
      BY <2>4 DEF SerialInv, Apart, WithinADaysHours, Overlap, OnOneDay, SlotOf
    <2>6. QED
      BY <2>1, <2>5 DEF Fresh
  <1>3. CASE ReservationCancel(h)
    <2>1. Apart' /\ WithinADaysHours'
      BY <1>3 DEF ReservationCancel, SerialInv, Apart, WithinADaysHours, Stored
    <2>2. Fresh(h)'
      BY <1>3 DEF ReservationCancel, Fresh, Inv, TypeOK
    <2>3. QED
      BY <2>1, <2>2
  <1>4. CASE PublishCancelled(h)
    BY <1>4 DEF PublishCancelled, SerialInv, Apart, WithinADaysHours, Stored, Fresh, Inv, TypeOK
  <1>5. QED
    BY <1>2, <1>3, <1>4 DEF Cancel

LEMMA SerialUpdate ==
    ASSUME Exclusive, Inv, SerialInv, NEW h \in Handlers, Update(h)
    PROVE  SerialInv'
  <1> USE DEF Creating, Updating, Checked
  <1>1. SUFFICES Apart' /\ WithinADaysHours' /\ Fresh(h)'
    BY OthersFresh DEF SerialInv, Acts
  <1>2. CASE UpdateSave(h)
    <2>1. PICK o \in WriteOutcomes :
              /\ pc[h] = "u_save" /\ pc'[h] \in {"updated", "error"}
              /\ rows' = IF o.stored THEN [rows EXCEPT ![bid[h]] = mem[h]] ELSE rows
      BY <1>2 DEF UpdateSave, SaveRow, Inv, TypeOK
    <2>2. /\ bid[h] \in BookingIds /\ mem[h] \in Row /\ mem[h].start < mem[h].end
          /\ ~Conflicts(SlotOf(mem[h]), bid[h])
          /\ \E from, to \in Offsets : OnOneDay(mem[h], from, to)
      <3>1. /\ bid[h] \in BookingIds /\ mem[h] \in Row /\ mem[h].start < mem[h].end
            /\ SlotOf(goal[h]) = SlotOf(mem[h]) /\ ~Conflicts(goal[h], bid[h])
        BY <2>1, NoneAssumption
           DEF Inv, TypeOK, Ordered, Equipped, SerialInv, Fresh, Chosen
      <3>2. QED
        BY <2>1, <3>1, ConflictsOfSlot, FreshIsWithin DEF SerialInv
    <2>3. Fresh(h)'
      BY <2>1 DEF Fresh
    <2>4. CASE rows' = [rows EXCEPT ![bid[h]] = mem[h]]
      BY <2>2, <2>3, <2>4, WriteApart DEF SerialInv, WithinADaysHours, Stored, Inv, TypeOK
    <2>5. CASE rows' = rows
      BY <2>3, <2>5 DEF SerialInv, Apart, WithinADaysHours, Stored
    <2>6. QED
      BY <2>1, <2>4, <2>5
  <1>3. CASE ~UpdateSave(h)
    <2>1. rows' = rows
      BY <1>3 DEF Update, ReservationUpdate, UpdateReread, UpdateSchedule, UpdateCheck,
                  UpdateRefused, CheckSchedule, CheckConflicts
    <2>2. Apart' /\ WithinADaysHours'
      BY <2>1 DEF SerialInv, Apart, WithinADaysHours, Stored
    <2>3. Fresh(h)'
      <3> USE DEF Inv, TypeOK, SerialInv, Fresh
      <3>1. CASE ReservationUpdate(h)
        BY <3>1 DEF ReservationUpdate
      <3>2. CASE UpdateReread(h)
        BY <3>2 DEF UpdateReread, MergedSlot, OnClocks, SlotOf, Chosen
      <3>3. CASE UpdateSchedule(h)
        BY <3>3 DEF UpdateSchedule, CheckSchedule, Chosen, Scheduled
      <3>4. CASE UpdateCheck(h)
        BY <3>4, <2>1
           DEF UpdateCheck, CheckConflicts, AfterCheck, Conflicts, Stored, Chosen, Scheduled
      <3>5. CASE UpdateRefused(h)
        BY <3>5 DEF UpdateRefused
      <3>6. QED
        BY <1>3, <3>1, <3>2, <3>3, <3>4, <3>5 DEF Update
    <2>4. QED
      BY <2>2, <2>3
  <1>4. QED
    BY <1>2, <1>3

LEMMA SerialRest ==
    ASSUME Exclusive, Inv, SerialInv,
           \/ \E h \in Handlers : Refuse(h) \/ CallFails(h) \/ Respond(h)
           \/ Restart \/ Tick \/ UNCHANGED vars
    PROVE  SerialInv'
  <1> USE DEF Creating, Updating, Checked
  <1>1. rows' = rows
    BY DEF Refuse, CallFails, Respond, Restart, Tick, vars
  <1>2. Apart' /\ WithinADaysHours'
    BY <1>1 DEF SerialInv, Apart, WithinADaysHours, Stored
  <1>3. ASSUME NEW h \in Handlers, Refuse(h) \/ CallFails(h) \/ Respond(h) PROVE Fresh(h)'
    BY <1>3 DEF Refuse, CallFails, Respond, Forget, Calls, Done, Fresh, Inv, TypeOK
  <1>4. ASSUME NEW h \in Handlers, Restart PROVE Fresh(h)'
    BY <1>4 DEF Restart, Nobody, Fresh
  <1>5. ASSUME NEW h \in Handlers, Tick \/ UNCHANGED vars PROVE Fresh(h)'
    BY <1>5 DEF Tick, vars, SerialInv, Fresh, Chosen, Scheduled, Conflicts, Stored
  <1>6. QED
    BY <1>2, <1>3, <1>4, <1>5, OthersFresh DEF SerialInv, Acts

LEMMA SerialStep == Exclusive /\ Inv /\ SerialInv /\ [Next]_vars => SerialInv'
  BY SerialCreate, SerialCancel, SerialUpdate, SerialRest DEF Next

LEMMA SerialInvIsInvariant == Spec /\ []Exclusive => [](Inv /\ SerialInv)
  BY SerialInit, SerialStep, InvIsInvariant, PTL DEF Spec

\* One at a time, requests are never there together.
LEMMA SerialIsExclusive == ASSUME OneAtATime PROVE Exclusive
  BY DEF OneAtATime, Exclusive

\* Requests that do not overlap between a read and its write never book a
\* venue twice, however many are served.
THEOREM ExclusiveNoDoubleBooking == Spec /\ []Exclusive => []NoDoubleBooking
  <1>1. SerialInv => NoDoubleBooking
    BY DEF SerialInv, Apart, NoDoubleBooking
  <1>2. QED
    BY <1>1, SerialInvIsInvariant, PTL

\* Requests served one at a time never book a venue twice.
THEOREM SerialNoDoubleBooking ==
    ASSUME OneAtATime
    PROVE  Spec => []NoDoubleBooking
  BY SerialIsExclusive, ExclusiveNoDoubleBooking, PTL

\* Requests that do not overlap between a read and its write leave every
\* booking two clocks, its clients' or UTC, on which it begins and ends on one
\* day and in the venue's hours: the checks hold of the row that is written,
\* each end on its own clock.
THEOREM ExclusiveWithinADaysHours == Spec /\ []Exclusive => []WithinADaysHours
  BY SerialInvIsInvariant, PTL DEF SerialInv

\* Requests served one at a time do so too.
THEOREM SerialWithinADaysHours ==
    ASSUME OneAtATime
    PROVE  Spec => []WithinADaysHours
  BY SerialIsExclusive, ExclusiveWithinADaysHours, PTL

\* The difference between two offsets.
Apartness(spread) == \A from, to \in Offsets : from - to <= spread

\* How long a booking on one day by each end's own clock may last: a day, and
\* what the two clocks may differ by.
LEMMA OneDayLasts ==
    ASSUME NEW spread \in Nat, Apartness(spread), NEW r \in Row,
           NEW from \in Offsets, NEW to \in Offsets, OnOneDay(r, from, to)
    PROVE  r.end - r.start < DayLength + spread
  <1>1. /\ from \in Int /\ to \in Int /\ from - to <= spread
        /\ r.start \in Int /\ r.end \in Int
    BY ZoneAssumption, TimeAssumption DEF Offsets, Row, Times, Apartness
  <1>2. Midnight(r.start, from) + from = Midnight(r.end, to) + to
    <2> DEFINE m == DayOf(r.start, from) * DayLength
    <2>1. DayOf(r.end, to) * DayLength = m /\ m \in Int
      <3>1. DayOf(r.start, from) \in Int /\ DayOf(r.start, from) = DayOf(r.end, to)
        BY <1>1, ClockReading DEF OnOneDay
      <3>2. QED
        BY <3>1, LengthAssumption
    <2>2. Midnight(r.start, from) = m - from /\ Midnight(r.end, to) = m - to
      BY <2>1 DEF Midnight
    <2> HIDE DEF m
    <2>3. QED
      BY <1>1, <2>1, <2>2
  <1>3. /\ TimeOfDay(r.start, from) = r.start - Midnight(r.start, from)
        /\ TimeOfDay(r.start, from) \in 0 .. DayLength - 1
        /\ TimeOfDay(r.end, to) = r.end - Midnight(r.end, to)
        /\ TimeOfDay(r.end, to) \in 0 .. DayLength - 1
        /\ Midnight(r.start, from) \in Int /\ Midnight(r.end, to) \in Int
    BY <1>1, ClockReading
  <1>4. QED
    BY <1>1, <1>2, <1>3, LengthAssumption

\* Requests that do not overlap between a read and its write store no booking
\* as long as a day and the widest difference between two clocks.  Where every
\* time is given in UTC, that difference is none, and every booking is shorter
\* than a day; where a client is at +12:00 for one end and at -12:00 for the
\* other, it may last close to two.
THEOREM ExclusiveLasts ==
    ASSUME NEW spread \in Nat, Apartness(spread)
    PROVE  Spec /\ []Exclusive =>
               [](\A id \in BookingIds :
                      Stored(id) => rows[id].end - rows[id].start < DayLength + spread)
  <1>1. ASSUME Inv, SerialInv, NEW id \in BookingIds, Stored(id)
        PROVE  rows[id].end - rows[id].start < DayLength + spread
    <2>1. rows[id] \in Row
      BY <1>1 DEF Inv, TypeOK, Stored
    <2>2. PICK from, to \in Offsets : OnOneDay(rows[id], from, to)
      BY <1>1 DEF SerialInv, WithinADaysHours
    <2>3. QED
      BY <2>1, <2>2, OneDayLasts
  <1>2. Inv /\ SerialInv =>
            \A id \in BookingIds :
                Stored(id) => rows[id].end - rows[id].start < DayLength + spread
    BY <1>1
  <1>3. QED
    BY <1>2, SerialInvIsInvariant, PTL

-------------------------------------------------------------------------------
(***************************************************************************)
(* The refinement of the abstract calendar.                                *)
(***************************************************************************)
EntryOf(r) == [slot |-> SlotOf(r), status |-> r.status]

LEMMA BookedIsEntry ==
    ASSUME Inv, NEW id \in BookingIds, Stored(id)
    PROVE  Entries[id] = EntryOf(rows[id]) /\ Entries[id] # None
  <1>1. rows[id] \in Row
    BY DEF Inv, TypeOK, Stored
  <1>2. EntryOf(rows[id]) \in [slot : Slot, status : Statuses]
    BY <1>1 DEF EntryOf, SlotOf, Slot, Row
  <1>3. QED
    BY <1>2, NoneAssumption DEF Entries, EntryOf, Stored

\* A slot without conflicts is free in the calendar.
LEMMA FreeInCalendar ==
    ASSUME Inv, NEW id \in BookingIds, NEW row \in Row, row.start < row.end,
           ~Conflicts(SlotOf(row), id)
    PROVE  Calendar!Free(id, EntryOf(row).slot)
  <1>1. SUFFICES ASSUME NEW j \in BookingIds, j # id, Stored(j)
                 PROVE  ~Calendar!Overlap(SlotOf(rows[j]), SlotOf(row))
    BY DEF Calendar!Free, Calendar!Live, Calendar!Booked, Calendar!Overlap,
           Entries, EntryOf, Stored
  <1>2. rows[j] \in Row /\ rows[j].start < rows[j].end /\ SlotOf(row) \in Slot
    BY <1>1 DEF Inv, TypeOK, Ordered, StartBeforeEnd, Stored, SlotOf, Slot, Row
  <1>3. rows[j].venue = row.venue => ~Clash(rows[j], SlotOf(row))
    BY <1>1 DEF Conflicts, SlotOf
  <1>4. rows[j].venue = row.venue => ~Overlap(rows[j], SlotOf(row))
    BY <1>2, <1>3, ClashIsOverlap DEF SlotOf
  <1>5. QED
    BY <1>4 DEF Calendar!Overlap, Overlap, SlotOf

LEMMA WriteBecomes ==
    ASSUME Inv, NEW id \in BookingIds, NEW row \in Row, rows' = [rows EXCEPT ![id] = row]
    PROVE  /\ Entries'[id] = EntryOf(row)
           /\ Calendar!Becomes(id, EntryOf(row))
  <1>1. row # None /\ EntryOf(row) \in Calendar!Entry
    BY NoneAssumption DEF EntryOf, SlotOf, Slot, Row, Calendar!Entry
  <1>2. \A j \in BookingIds : rows'[j] = IF j = id THEN row ELSE rows[j]
    BY DEF Inv, TypeOK
  <1>3. Entries' = [Entries EXCEPT ![id] = EntryOf(row)]
    BY <1>1, <1>2 DEF Entries, EntryOf, Stored
  <1>4. QED
    BY <1>1, <1>3 DEF Entries, Calendar!Becomes

LEMMA WriteIsStep ==
    ASSUME Inv, NEW id \in BookingIds, NEW row \in Row, rows' = [rows EXCEPT ![id] = row],
           \/ Calendar!Book(id, EntryOf(row))
           \/ Calendar!Move(id, EntryOf(row))
           \/ Calendar!Cancel(id, EntryOf(row))
    PROVE  Calendar!Next
  <1>1. PICK e : e = Entries'[id] /\ e = EntryOf(row)
    BY WriteBecomes
  <1>2. Calendar!Becomes(id, e)
    BY <1>1, WriteBecomes
  <1>3. Calendar!Book(id, e) \/ Calendar!Move(id, e) \/ Calendar!Cancel(id, e)
    BY <1>1
  <1>4. QED
    BY <1>1, <1>2, <1>3 DEF Calendar!Next

LEMMA CalendarStep ==
    ASSUME Inv, SerialInv, [Next]_vars
    PROVE  [Calendar!Next]_Entries
  <1>1. CASE rows' = rows
    BY <1>1 DEF Entries, Stored
  <1>2. ASSUME NEW h \in Handlers, InsertStored(h) PROVE Calendar!Next
    <2>1. PICK id \in BookingIds :
              /\ ~Stored(id) /\ pc[h] = "c_insert" /\ rows' = [rows EXCEPT ![id] = mem[h]]
      BY <1>2 DEF InsertStored
    <2>2. /\ mem[h] \in Row /\ mem[h].start < mem[h].end /\ SlotOf(goal[h]) = SlotOf(mem[h])
          /\ ~Conflicts(goal[h], None)
      BY <2>1, NoneAssumption
         DEF Inv, TypeOK, Ordered, Equipped, SerialInv, Fresh, Chosen, Creating
    <2>3. ~Conflicts(SlotOf(mem[h]), id)
      <3>1. ~Conflicts(goal[h], id)
        BY <2>2, NoneAssumption DEF Conflicts
      <3>2. QED
        BY <2>2, <3>1, ConflictsOfSlot
    <2>4. Calendar!Book(id, EntryOf(mem[h]))
      <3>1. Calendar!Free(id, EntryOf(mem[h]).slot)
        BY <2>2, <2>3, FreeInCalendar
      <3>2. ~Calendar!Booked(id)
        BY <2>1 DEF Calendar!Booked, Entries, Stored
      <3>3. QED
        BY <3>1, <3>2 DEF Calendar!Book
    <2>5. QED
      BY <2>1, <2>2, <2>4, WriteIsStep
  <1>3. ASSUME NEW h \in Handlers, CancelSave(h), rows' # rows PROVE Calendar!Next
    <2>1. /\ pc[h] = "x_save" /\ rows' = [rows EXCEPT ![bid[h]] = mem[h]]
          /\ bid[h] \in BookingIds /\ Stored(bid[h]) /\ mem[h] \in Row
      BY <1>3 DEF CancelSave, SaveRow, Inv, TypeOK, Equipped
    <2>2. ~Final(rows[bid[h]]) /\ mem[h] = [rows[bid[h]] EXCEPT !.status = "cancelled"]
      BY <2>1 DEF SerialInv, Fresh
    <2>3. rows[bid[h]] \in Row
      BY <2>1 DEF Inv, TypeOK, Stored
    <2>4. EntryOf(mem[h]) = [EntryOf(rows[bid[h]]) EXCEPT !.status = "cancelled"]
      BY <2>2, <2>3 DEF EntryOf, SlotOf, Row
    <2>5. Calendar!Cancel(bid[h], EntryOf(mem[h]))
      <3>1. Entries[bid[h]] = EntryOf(rows[bid[h]]) /\ Entries[bid[h]] # None
        BY <2>1, BookedIsEntry
      <3>2. EntryOf(rows[bid[h]]).status \notin {"cancelled", "completed"}
        BY <2>2 DEF EntryOf, Final
      <3>3. QED
        BY <2>4, <3>1, <3>2 DEF Calendar!Cancel, Calendar!Booked
    <2>6. QED
      BY <2>1, <2>5, WriteIsStep
  <1>4. ASSUME NEW h \in Handlers, UpdateSave(h), rows' # rows PROVE Calendar!Next
    <2>1. /\ pc[h] = "u_save" /\ rows' = [rows EXCEPT ![bid[h]] = mem[h]]
          /\ mem[h].status = "pending"
          /\ bid[h] \in BookingIds /\ Stored(bid[h])
          /\ mem[h] \in Row /\ mem[h].start < mem[h].end /\ patch[h] \in Patches
      BY <1>4, NoneAssumption
         DEF UpdateSave, Updatable, SaveRow, Inv, TypeOK, Ordered, Equipped, Updating
    <2>2. /\ mem[h] = Merge(rows[bid[h]], patch[h])
          /\ ~Conflicts(SlotOf(mem[h]), bid[h])
      <3>1. /\ mem[h] = Merge(rows[bid[h]], patch[h])
            /\ SlotOf(goal[h]) = SlotOf(mem[h]) /\ ~Conflicts(goal[h], bid[h])
        BY <2>1 DEF SerialInv, Fresh, Chosen, Updating
      <3>2. QED
        BY <3>1, ConflictsOfSlot
    <2>3. rows[bid[h]].status = "pending"
      BY <2>1, <2>2 DEF Merge, Row, Inv, TypeOK, Stored
    <2>4. Calendar!Move(bid[h], EntryOf(mem[h]))
      <3>1. Calendar!Free(bid[h], EntryOf(mem[h]).slot)
        BY <2>1, <2>2, FreeInCalendar
      <3>2. Calendar!Booked(bid[h]) /\ Entries[bid[h]].status = "pending"
        <4>1. Entries[bid[h]] = EntryOf(rows[bid[h]]) /\ Entries[bid[h]] # None
          BY <2>1, BookedIsEntry
        <4>2. EntryOf(rows[bid[h]]).status = "pending"
          BY <2>3 DEF EntryOf
        <4>3. QED
          BY <4>1, <4>2 DEF Calendar!Booked
      <3>3. EntryOf(mem[h]).status = "pending"
        BY <2>1 DEF EntryOf
      <3>4. QED
        BY <3>1, <3>2, <3>3 DEF Calendar!Move
    <2>5. QED
      BY <2>1, <2>4, WriteIsStep
  <1>5. QED
    BY <1>1, <1>2, <1>3, <1>4, WhoWrites

\* Requests that do not overlap between a read and its write implement the
\* abstract calendar: the steps of a creation or an update have the effect of
\* one step.
THEOREM ExclusiveRefinesCalendar == Spec /\ []Exclusive => CalendarRefined
  <1>1. Init => Calendar!Init
    BY DEF Init, Calendar!Init, Entries, Stored
  <1>2. Inv /\ SerialInv /\ [Next]_vars => [Calendar!Next]_Entries
    BY CalendarStep
  <1>3. QED
    BY <1>1, <1>2, SerialInvIsInvariant, PTL DEF Spec, CalendarRefined, Calendar!Spec

\* Requests served one at a time implement the abstract calendar.
THEOREM SerialRefinesCalendar ==
    ASSUME OneAtATime
    PROVE  Spec => CalendarRefined
  BY SerialIsExclusive, ExclusiveRefinesCalendar, PTL
-------------------------------------------------------------------------------
(***************************************************************************)
(* Final bookings and the events of cancellations.                         *)
(***************************************************************************)
\* What a save writes onto a booking: never a final one, and if the booking was
\* not to be cancelled, a pending row.
LEMMA FinalStep ==
    ASSUME Inv, SerialInv, [Next]_vars,
           NEW id \in BookingIds, Stored(id), Final(rows[id])
    PROVE  rows'[id] = rows[id]
  <1>1. CASE rows' = rows
    BY <1>1
  <1>2. ASSUME NEW h \in Handlers, InsertStored(h) PROVE rows'[id] = rows[id]
    BY <1>2 DEF InsertStored, Inv, TypeOK
  <1>3. ASSUME NEW h \in Handlers, CancelSave(h), bid[h] = id PROVE FALSE
    BY <1>3 DEF CancelSave, SaveRow, SerialInv, Fresh
  <1>4. ASSUME NEW h \in Handlers, UpdateSave(h), bid[h] = id PROVE FALSE
    <2>1. mem[h] = Merge(rows[id], patch[h]) /\ mem[h].status = "pending"
      BY <1>4 DEF UpdateSave, Updatable, SerialInv, Fresh, Updating
    <2>2. rows[id].status = "pending"
      BY <2>1 DEF Merge, Row, Inv, TypeOK, Stored
    <2>3. QED
      BY <2>2 DEF Final
  <1>5. ASSUME NEW h \in Handlers, CancelSave(h) \/ UpdateSave(h), bid[h] # id
        PROVE  rows'[id] = rows[id]
    BY <1>5 DEF CancelSave, UpdateSave, SaveRow, Inv, TypeOK
  <1>6. QED
    BY <1>1, <1>2, <1>3, <1>4, <1>5, WhoWrites

\* Requests that do not overlap between a read and its write never touch a
\* cancelled or completed booking.
THEOREM ExclusiveFinalRowsStay == Spec /\ []Exclusive => FinalRowsStay
  <1>1. Inv /\ SerialInv /\ [Next]_vars =>
            [\A id \in BookingIds :
               Stored(id) /\ Final(rows[id]) => rows'[id] = rows[id]]_vars
    BY FinalStep
  <1>2. QED
    BY <1>1, SerialInvIsInvariant, PTL DEF Spec, FinalRowsStay

\* Requests served one at a time never touch a cancelled or completed booking.
THEOREM SerialFinalRowsStay ==
    ASSUME OneAtATime
    PROVE  Spec => FinalRowsStay
  BY SerialIsExclusive, ExclusiveFinalRowsStay, PTL

Cancelled(id) == Stored(id) /\ rows[id].status = "cancelled"

\* A handler announces a cancellation once it is stored.
CancelInv ==
    /\ CancelEventMeansCancelled
    /\ \A h \in Handlers : pc[h] = "x_publish" => Cancelled(bid[h])

LEMMA CancelledStays ==
    ASSUME Inv, SerialInv, [Next]_vars, NEW id \in BookingIds, Cancelled(id)
    PROVE  Cancelled(id)'
  BY FinalStep DEF Cancelled, Final, Stored

\* Who announces was about to, or has just stored the cancellation.
LEMMA Cancelling ==
    ASSUME Inv, [Next]_vars, NEW k \in Handlers, pc'[k] = "x_publish", ~CancelSave(k)
    PROVE  pc[k] = "x_publish" /\ bid'[k] = bid[k]
  <1> USE DEF Inv, TypeOK
  <1>1. ASSUME NEW h \in Handlers \ {k}, Acts(h) PROVE pc[k] = "x_publish" /\ bid'[k] = bid[k]
    BY <1>1, ActsAlone
  <1>2. CASE Create(k)
    <2>1. ASSUME NEW to \in PCs PROVE AfterCheck(goal[k], bid[k], to) \in {"norelation", "conflict", to}
      BY DEF AfterCheck
    <2>2. QED
      BY <1>2, <2>1
         DEF Create, CreateReservation, CreateSchedule, CreateCheck, CreatePrice, CreateTxCheck,
             InsertStored, InsertRolledBack, PublishCreated, CheckSchedule, CheckConflicts,
             PCs, Calls, Done
  <1>3. CASE Cancel(k)
    BY <1>3 DEF Cancel, ReservationCancel, PublishCancelled
  <1>4. CASE Update(k)
    BY <1>4 DEF Update, ReservationUpdate, UpdateReread, UpdateSchedule, UpdateCheck, UpdateSave,
                UpdateRefused, CheckSchedule, CheckConflicts, AfterCheck, SaveRow
  <1>5. CASE Refuse(k) \/ CallFails(k) \/ Respond(k)
    BY <1>5 DEF Refuse, CallFails, Respond, Forget
  <1>6. CASE Restart \/ Tick \/ UNCHANGED vars
    BY <1>6 DEF Restart, Tick, vars
  <1>7. QED
    BY <1>1, <1>2, <1>3, <1>4, <1>5, <1>6 DEF Next, Acts

\* Only the save of a cancellation leads to its announcement.
LEMMA CancelSaved ==
    ASSUME Inv, SerialInv, NEW k \in Handlers, CancelSave(k), pc'[k] = "x_publish"
    PROVE  Cancelled(bid[k])'
  <1>1. PICK o \in WriteOutcomes :
            /\ pc[k] = "x_save"
            /\ pc' = [pc EXCEPT ![k] = IF o.reported THEN "x_publish" ELSE "error"]
            /\ rows' = IF o.stored THEN [rows EXCEPT ![bid[k]] = mem[k]] ELSE rows
            /\ UNCHANGED bid
    BY DEF CancelSave, SaveRow
  <1>2. /\ bid[k] \in BookingIds /\ mem[k] \in Row
        /\ mem[k] = [rows[bid[k]] EXCEPT !.status = "cancelled"] /\ rows[bid[k]] \in Row
    BY <1>1 DEF Inv, TypeOK, Equipped, Stored, SerialInv, Fresh
  <1>3. mem[k].status = "cancelled" /\ mem[k] # None
    BY <1>2, NoneAssumption DEF Row
  <1>4. rows'[bid[k]] = mem[k]
    BY <1>1, <1>2 DEF WriteOutcomes, Inv, TypeOK
  <1>5. QED
    BY <1>1, <1>3, <1>4 DEF Cancelled, Stored

\* What is announced is cancelled, and stays so.
LEMMA AnnouncesCancelled ==
    ASSUME Inv, SerialInv, CancelInv, [Next]_vars, NEW k \in Handlers, pc'[k] = "x_publish"
    PROVE  Cancelled(bid[k])'
  <1>1. CASE CancelSave(k)
    BY <1>1, CancelSaved
  <1>2. CASE ~CancelSave(k)
    <2>1. pc[k] = "x_publish" /\ bid'[k] = bid[k]
      BY <1>2, Cancelling
    <2>2. bid[k] \in BookingIds /\ Cancelled(bid[k])
      BY <2>1 DEF CancelInv, Inv, TypeOK, Equipped, Announcing
    <2>3. PICK id \in BookingIds : id = bid[k]
      BY <2>2
    <2>4. Cancelled(id)'
      BY <2>2, <2>3, CancelledStays
    <2>5. QED
      BY <2>1, <2>3, <2>4 DEF Cancelled, Stored
  <1>3. QED
    BY <1>1, <1>2

LEMMA CancelPublished ==
    ASSUME Inv, CancelInv, NEW h \in Handlers, PublishCancelled(h)
    PROVE  CancelEventMeansCancelled'
  <1>1. PICK o \in PublishOutcomes(cancelledTopic) :
            /\ pc[h] = "x_publish" /\ UNCHANGED rows
            /\ cancelledTopic' = Published(cancelledTopic, bid[h], o.copies)
    BY DEF PublishCancelled
  <1>2. o.copies \in Nat
    BY <1>1 DEF PublishOutcomes, MaxCopies
  <1>3. bid[h] \in BookingIds /\ cancelledTopic \in Seq(BookingIds)
    BY <1>1 DEF Inv, TypeOK, Equipped, Announcing
  <1>4. \A i \in DOMAIN cancelledTopic' :
            \/ i \in DOMAIN cancelledTopic /\ cancelledTopic'[i] = cancelledTopic[i]
            \/ cancelledTopic'[i] = bid[h]
    BY <1>1, <1>2, <1>3, PublishedHolds
  <1>5. QED
    BY <1>1, <1>4 DEF CancelInv, CancelEventMeansCancelled, Cancelled, Stored

LEMMA CancelStep ==
    ASSUME Inv, SerialInv, CancelInv, [Next]_vars
    PROVE  CancelInv'
  <1>1. \A k \in Handlers : pc'[k] = "x_publish" => Cancelled(bid[k])'
    BY AnnouncesCancelled
  <1>2. CASE \E h \in Handlers : PublishCancelled(h)
    BY <1>1, <1>2, CancelPublished DEF CancelInv
  <1>3. CASE \A h \in Handlers : ~PublishCancelled(h)
    <2>1. cancelledTopic' = cancelledTopic
      BY <1>3, WhoPublishes DEF PublishCreated
    <2>2. \A i \in DOMAIN cancelledTopic : cancelledTopic[i] \in BookingIds
      <3>1. cancelledTopic \in Seq(BookingIds)
        BY DEF Inv, TypeOK
      <3>2. QED
        BY <3>1
    <2>3. CancelEventMeansCancelled'
      BY <2>1, <2>2, CancelledStays DEF CancelInv, CancelEventMeansCancelled, Cancelled
    <2>4. QED
      BY <1>1, <2>3 DEF CancelInv
  <1>4. QED
    BY <1>2, <1>3

LEMMA CancelIsInvariant == Spec /\ []Exclusive => [](Inv /\ SerialInv /\ CancelInv)
  <1>1. Init => CancelInv
    BY DEF Init, CancelInv, CancelEventMeansCancelled
  <1>2. Inv /\ SerialInv /\ CancelInv /\ [Next]_vars => CancelInv'
    BY CancelStep
  <1>3. QED
    BY <1>1, <1>2, SerialInvIsInvariant, PTL DEF Spec

\* Requests that do not overlap between a read and its write announce only
\* cancellations that are stored, whatever the Save reports.
THEOREM ExclusiveCancelEvents == Spec /\ []Exclusive => []CancelEventMeansCancelled
  BY CancelIsInvariant, PTL DEF CancelInv

\* Requests served one at a time announce only cancellations that are stored.
THEOREM SerialCancelEvents ==
    ASSUME OneAtATime
    PROVE  Spec => []CancelEventMeansCancelled
  BY SerialIsExclusive, ExclusiveCancelEvents, PTL

-------------------------------------------------------------------------------
(***************************************************************************)
(* Refusals.                                                               *)
(***************************************************************************)
LEMMA CheckFinds ==
    ASSUME OneAtATime, TableExists, Inv, SerialInv, NEW h \in Handlers, NEW from, NEW to,
           CheckConflicts(h, from, to), to \notin {"conflict", "norelation"},
           from \in {"c_check", "c_txcheck", "u_check"}
    PROVE  RefusedForOverlap'
  <1>1. SUFFICES ASSUME pc'[h] \in {"conflict", "norelation"}
                 PROVE  \E id \in BookingIds \ {bid[h]} :
                            /\ Stored(id) /\ rows[id].venue = goal[h].venue
                            /\ Overlap(rows[id], goal[h])
    BY DEF RefusedForOverlap, OneAtATime, CheckConflicts, Stored
  <1>2. Conflicts(goal[h], bid[h])
    BY <1>1 DEF CheckConflicts, AfterCheck, Inv, TypeOK
  <1>3. PICK id \in BookingIds \ {bid[h]} :
            Stored(id) /\ rows[id].venue = goal[h].venue /\ Clash(rows[id], goal[h])
    BY <1>2 DEF Conflicts
  <1>4. rows[id] \in Row /\ rows[id].start < rows[id].end
    BY <1>3 DEF Inv, TypeOK, Ordered, StartBeforeEnd, Stored
  <1>5. /\ SlotOf(goal[h]) \in Slot /\ goal[h].start < goal[h].end
        /\ goal[h].start = SlotOf(goal[h]).start /\ goal[h].end = SlotOf(goal[h]).end
    <2>1. pc[h] \in {"c_check", "c_txcheck", "u_check"}
      BY DEF CheckConflicts
    <2>2. goal[h] \in Wanted /\ mem[h] \in Row
      BY <2>1 DEF Inv, TypeOK, Equipped, Creating, Updating
    <2>3. SlotOf(goal[h]) = SlotOf(mem[h])
      BY <2>1 DEF SerialInv, Fresh, Chosen, Creating, Updating
    <2>4. mem[h].start < mem[h].end
      BY <2>2, NoneAssumption DEF Inv, Ordered
    <2>5. QED
      BY <2>2, <2>3, <2>4 DEF SlotOf, Wanted, Slot
  <1>6. Clash(rows[id], SlotOf(goal[h]))
    BY <1>3, <1>5 DEF Clash
  <1>7. Overlap(rows[id], SlotOf(goal[h]))
    BY <1>4, <1>5, <1>6, ClashIsOverlap
  <1>8. QED
    BY <1>3, <1>5, <1>7 DEF Overlap

\* A step that is no check does not refuse, and leaves a refusal as it was.
LEMMA StillRefused ==
    ASSUME OneAtATime, Inv, [Next]_vars, NEW k \in Handlers, pc'[k] \in {"conflict", "norelation"},
           ~CreateCheck(k), ~CreateTxCheck(k), ~UpdateCheck(k)
    PROVE  pc[k] = pc'[k] /\ UNCHANGED <<rows, bid, goal>>
  <1> USE DEF Inv, TypeOK
  <1>1. \A h \in Handlers : h = k
    BY DEF OneAtATime
  <1>2. CASE Create(k)
    BY <1>2 DEF Create, CreateReservation, CreateSchedule, CreatePrice,
                InsertStored, InsertRolledBack, PublishCreated, CheckSchedule
  <1>3. CASE Cancel(k)
    BY <1>3 DEF Cancel, ReservationCancel, CancelSave, SaveRow, PublishCancelled
  <1>4. CASE Update(k)
    BY <1>4 DEF Update, ReservationUpdate, UpdateReread, UpdateSchedule, UpdateSave,
                UpdateRefused, CheckSchedule, SaveRow
  <1>5. CASE Refuse(k) \/ CallFails(k) \/ Respond(k)
    BY <1>5 DEF Refuse, CallFails, Respond
  <1>6. CASE Restart \/ Tick \/ UNCHANGED vars
    BY <1>6 DEF Restart, Tick, vars
  <1>7. QED
    BY <1>1, <1>2, <1>3, <1>4, <1>5, <1>6 DEF Next

LEMMA RefusedStep ==
    ASSUME OneAtATime, TableExists, Inv, SerialInv, RefusedForOverlap, [Next]_vars
    PROVE  RefusedForOverlap'
  <1>1. ASSUME NEW k \in Handlers, CreateCheck(k) \/ CreateTxCheck(k) \/ UpdateCheck(k)
        PROVE  RefusedForOverlap'
    BY <1>1, CheckFinds DEF CreateCheck, CreateTxCheck, UpdateCheck
  <1>2. CASE \A k \in Handlers : ~CreateCheck(k) /\ ~CreateTxCheck(k) /\ ~UpdateCheck(k)
    <2>1. SUFFICES ASSUME NEW k \in Handlers, pc'[k] \in {"conflict", "norelation"}
                   PROVE  \E id \in BookingIds \ {bid'[k]} :
                              /\ Stored(id)' /\ rows'[id].venue = goal'[k].venue
                              /\ Overlap(rows'[id], goal'[k])
      BY DEF RefusedForOverlap
    <2>2. pc[k] = pc'[k] /\ UNCHANGED <<rows, bid, goal>>
      BY <1>2, <2>1, StillRefused
    <2>3. QED
      BY <2>1, <2>2 DEF RefusedForOverlap, Stored
  <1>3. QED
    BY <1>1, <1>2

\* Requests served one at a time, with the relation in place, are refused only
\* where another booking of the venue overlaps what was asked for.
THEOREM SerialRefusals ==
    ASSUME OneAtATime, TableExists
    PROVE  Spec => []RefusedForOverlap
  <1>1. Init => RefusedForOverlap
    BY DEF Init, RefusedForOverlap
  <1>2. Inv /\ SerialInv /\ RefusedForOverlap /\ [Next]_vars => RefusedForOverlap'
    BY RefusedStep
  <1>3. QED
    BY <1>1, <1>2, SerialIsExclusive, SerialInvIsInvariant, PTL DEF Spec
===============================================================================
