----------------------------- MODULE Reservation -----------------------------
(***************************************************************************)
(* The booking service of reservation-service: HTTP handlers that create,  *)
(* cancel and update reservations over one Postgres table, asking the      *)
(* venue service for a schedule and announcing the result on two Kafka     *)
(* topics.  Every handler runs in its own goroutine; an action is the code *)
(* between two calls that leave the process (database, venue service,      *)
(* Kafka).  Postgres runs at READ COMMITTED: a statement sees every row    *)
(* committed before it, and nothing locks the slot between the check and   *)
(* the write.                                                              *)
(***************************************************************************)
EXTENDS Integers, Sequences, Slots

CONSTANTS
    Handlers,      \* the requests served at the same time
    BookingIds,    \* the primary keys the table may hand out
    Venues,
    Requests,      \* the bookings clients ask for
    Patches,       \* the updates clients ask for ({}: nobody updates)
    VenueReplies,  \* what the venue service may answer at any time
    TableExists,   \* does relation "reservations" exist (and show the bookings)
    MaxTime,       \* the last instant a booking may end
    Zones,         \* the offsets from UTC clients write their times with
    Clock,         \* the instants at which the clock is looked at
    MaxEvents      \* messages a topic holds

Times == 0 .. MaxTime

Statuses == {"pending", "confirmed", "cancelled", "completed"}

\* The clocks an instant is read on: those of the clients, and UTC for what
\* comes from the table.
Offsets == Zones \union {0}

Slot == [venue : Venues, start : Times, end : Times]

Wanted == [venue : Venues, start : Times, end : Times,
           startZone : Offsets, endZone : Offsets]

Row == [venue : Venues, start : Times, end : Times,
        price : Nat, dur : Nat, status : Statuses]

Request == [venue : Venues, start : Times, end : Times,
            startZone : Zones, endZone : Zones, status : Statuses]

Patch == [venue : Venues \union {None}, start : Times \union {None},
          end : Times \union {None}, startZone : Zones, endZone : Zones,
          price : Nat \union {None}]

Reply == [enabled : BOOLEAN, opens : Nat \union {None},
          closes : Nat \union {None}, price : Nat]

CreatedEvent == [booking : BookingIds, price : Nat]

ASSUME TimeAssumption ==
    /\ MaxTime \in Nat
    /\ Clock \subseteq Times

ASSUME ZoneAssumption == Zones \subseteq Int

ASSUME InputAssumption ==
    /\ Requests \subseteq Request
    /\ Patches \subseteq Patch
    /\ VenueReplies \subseteq Reply

ASSUME BoundAssumption == MaxEvents \in Nat /\ TableExists \in BOOLEAN

ASSUME NoneAssumption ==
    /\ None \notin BookingIds
    /\ None \notin Row
    /\ None \notin Wanted
    /\ None \notin Patch
    /\ None \notin [slot : Slot, status : Statuses]

VARIABLES
    now,             \* time.Now()
    rows,            \* table reservation_details
    pc,              \* where each handler is
    bid,             \* the booking it works on
    mem,             \* the ReservationDetails it holds in memory
    goal,            \* the slot it validates, as its ends were given
    patch,           \* the update it was asked for
    createdTopic,    \* Kafka topic of BookingCreatedEvent
    cancelledTopic   \* Kafka topic of BookingCancelledEvent

locals == <<bid, mem, goal, patch>>
topics == <<createdTopic, cancelledTopic>>
vars == <<now, rows, pc, bid, mem, goal, patch, createdTopic, cancelledTopic>>

Done == {"created", "cancelled", "updated", "error", "conflict", "norelation"}

Calls == {"c_schedule", "c_check", "c_price", "c_txcheck",
          "u_reread", "u_schedule", "u_check"}

PCs == {"idle", "c_insert", "c_publish", "x_save", "x_publish", "u_save"}
           \union Calls \union Done

(***************************************************************************)
(* Values                                                                  *)
(***************************************************************************)
Stored(id) == rows[id] # None

SlotOf(r) == [venue |-> r.venue, start |-> r.start, end |-> r.end]

OnClocks(r, from, to) ==
    [venue |-> r.venue, start |-> r.start, end |-> r.end,
     startZone |-> from, endZone |-> to]

\* The price is filled in once the venue service has answered; one unit of
\* price is one HourLength-th of the currency, so that no division is needed.
NewRow(r) == [venue |-> r.venue, start |-> r.start, end |-> r.end,
              price |-> 0, dur |-> r.end - r.start, status |-> r.status]

Priced(r, reply) == [r EXCEPT !.price = reply.price * (r.end - r.start)]

Or(new, old) == IF new = None THEN old ELSE new

Merge(r, p) == [r EXCEPT !.venue = Or(p.venue, @), !.start = Or(p.start, @),
                         !.end = Or(p.end, @), !.price = Or(p.price, @)]

ZoneOr(new, zone) == IF new = None THEN 0 ELSE zone

\* The slot an update would leave, an end it does not name read back in UTC.
MergedSlot(r, p) ==
    OnClocks(Merge(r, p), ZoneOr(p.start, p.startZone), ZoneOr(p.end, p.endZone))

\* No status in the WHERE clause: a cancelled booking clashes like any other.
Conflicts(s, exclude) ==
    \E id \in BookingIds \ {exclude} :
        Stored(id) /\ rows[id].venue = s.venue /\ Clash(rows[id], s)

AfterCheck(s, exclude, next) ==
    IF ~TableExists THEN "norelation"
    ELSE IF Conflicts(s, exclude) THEN "conflict" ELSE next

(***************************************************************************)
(* Steps the operations share                                              *)
(***************************************************************************)
Step(h, from, to) == pc[h] = from /\ pc' = [pc EXCEPT ![h] = to]

CheckSchedule(h, from, to) ==
    /\ \E reply \in VenueReplies :
           Step(h, from, IF ScheduleMatch(reply, goal[h]) THEN to ELSE "error")
    /\ UNCHANGED <<now, rows, locals, topics>>

CheckConflicts(h, from, to) ==
    /\ Step(h, from, AfterCheck(goal[h], bid[h], to))
    /\ UNCHANGED <<now, rows, locals, topics>>

\* Mutation of WriteOutcomes: the error of a failed Save is dropped.
WriteErrorIgnored == [stored : BOOLEAN, reported : BOOLEAN]

\* The driver reports success only of a row that was stored, and may report
\* the failure of one that was.
WriteOutcomes == {o \in [stored : BOOLEAN, reported : BOOLEAN] :
                     o.reported => o.stored}

\* Mutation of SaveRow: an update writes the columns it was asked to change,
\* not the row it holds.
SaveChangedColumns(h, from, to) ==
    /\ Step(h, from, to)
    /\ rows' = [rows EXCEPT ![bid[h]] =
                   IF patch[h] = None THEN mem[h] ELSE Merge(@, patch[h])]
    /\ UNCHANGED <<now, locals, topics>>

\* Save writes every column of the row in memory, whatever the table holds.
SaveRow(h, from, to) ==
    /\ \E o \in WriteOutcomes :
           /\ Step(h, from, IF o.reported THEN to ELSE "error")
           /\ rows' = IF o.stored THEN [rows EXCEPT ![bid[h]] = mem[h]] ELSE rows
    /\ UNCHANGED <<now, locals, topics>>

\* The writer retries: a message may be lost (reported), or be in the topic
\* once or twice, and a failure may be reported of one that is there.
MaxCopies == 2

\* Mutation of PublishOutcomes: the writer asks for no acknowledgement.
PublishUnacknowledged(topic) ==
    {o \in [copies : 0 .. MaxCopies, acked : BOOLEAN] :
        Len(topic) + o.copies <= MaxEvents}

PublishOutcomes(topic) ==
    {o \in [copies : 0 .. MaxCopies, acked : BOOLEAN] :
        /\ o.acked => o.copies > 0
        /\ Len(topic) + o.copies <= MaxEvents}

Published(topic, event, copies) == topic \o [i \in 1 .. copies |-> event]

(***************************************************************************)
(* CreateReservation                                                       *)
(***************************************************************************)
ValidRequest(r) == r.start < r.end /\ r.start >= now /\ SameDay(r)

CreateReservation(h) ==
    \E r \in Requests :
        /\ ValidRequest(r)
        /\ Step(h, "idle", "c_schedule")
        /\ mem' = [mem EXCEPT ![h] = NewRow(r)]
        /\ goal' = [goal EXCEPT ![h] = OnClocks(r, r.startZone, r.endZone)]
        /\ UNCHANGED <<now, rows, bid, patch, topics>>

CreateSchedule(h) == CheckSchedule(h, "c_schedule", "c_check")

CreateCheck(h) == CheckConflicts(h, "c_check", "c_price")

\* The second call to the venue service brings the price; only then is the
\* booking's length looked at.
CreatePrice(h) ==
    /\ \E reply \in VenueReplies :
           /\ Step(h, "c_price",
                   IF mem[h].dur < HourLength THEN "error" ELSE "c_txcheck")
           /\ mem' = [mem EXCEPT ![h] = Priced(mem[h], reply)]
    /\ UNCHANGED <<now, rows, bid, goal, patch, topics>>

CreateTxCheck(h) == CheckConflicts(h, "c_txcheck", "c_insert")

\* Mutation of InsertStored: the event is sent when the id is known, before
\* the row is committed.
InsertUncommitted(h) ==
    \E id \in BookingIds :
        /\ ~Stored(id)
        /\ Step(h, "c_insert", "c_publish")
        /\ bid' = [bid EXCEPT ![h] = id]
        /\ UNCHANGED <<now, rows, mem, goal, patch, topics>>

InsertStored(h) ==
    \E id \in BookingIds, reported \in BOOLEAN :
        /\ ~Stored(id)
        /\ Step(h, "c_insert", IF reported THEN "c_publish" ELSE "error")
        /\ rows' = [rows EXCEPT ![id] = mem[h]]
        /\ bid' = [bid EXCEPT ![h] = id]
        /\ UNCHANGED <<now, mem, goal, patch, topics>>

\* Mutation of InsertRolledBack: the error of the transaction is dropped.
InsertErrorIgnored(h) ==
    /\ Step(h, "c_insert", "c_publish")
    /\ UNCHANGED <<now, rows, locals, topics>>

InsertRolledBack(h) ==
    /\ Step(h, "c_insert", "error")
    /\ UNCHANGED <<now, rows, locals, topics>>

\* The booking is committed before its event is sent, and stays when the
\* event is not: the client is then told of an error.
PublishCreated(h) ==
    /\ \E o \in PublishOutcomes(createdTopic) :
           /\ Step(h, "c_publish", IF o.acked THEN "created" ELSE "error")
           /\ createdTopic' =
                  Published(createdTopic,
                            [booking |-> bid[h], price |-> mem[h].price],
                            o.copies)
    /\ UNCHANGED <<now, rows, locals, cancelledTopic>>

(***************************************************************************)
(* ReservationCancel                                                       *)
(***************************************************************************)
Final(r) == r.status \in {"cancelled", "completed"}

ReservationCancel(h) ==
    \E id \in BookingIds :
        /\ Stored(id) /\ ~Final(rows[id])
        /\ Step(h, "idle", "x_save")
        /\ bid' = [bid EXCEPT ![h] = id]
        /\ mem' = [mem EXCEPT ![h] = [rows[id] EXCEPT !.status = "cancelled"]]
        /\ UNCHANGED <<now, rows, goal, patch, topics>>

CancelSave(h) == SaveRow(h, "x_save", "x_publish")

\* A failure to publish is logged and the client is told of success.
PublishCancelled(h) ==
    /\ \E o \in PublishOutcomes(cancelledTopic) :
           /\ Step(h, "x_publish", "cancelled")
           /\ cancelledTopic' = Published(cancelledTopic, bid[h], o.copies)
    /\ UNCHANGED <<now, rows, locals, createdTopic>>

(***************************************************************************)
(* ReservationUpdate                                                       *)
(***************************************************************************)
\* The first read: the row that will be saved.
ReservationUpdate(h) ==
    \E id \in BookingIds, p \in Patches :
        LET merged == Merge(rows[id], p) IN
        /\ Stored(id)
        /\ merged.start < merged.end /\ merged.start >= now
        /\ Step(h, "idle", "u_reread")
        /\ bid' = [bid EXCEPT ![h] = id]
        /\ mem' = [mem EXCEPT ![h] = merged]
        /\ patch' = [patch EXCEPT ![h] = p]
        /\ UNCHANGED <<now, rows, goal, topics>>

\* Mutation of UpdateReread: the slot checked is the stored one.
UpdateRereadUnmerged(h) ==
    LET s == OnClocks(rows[bid[h]], 0, 0) IN
    /\ Step(h, "u_reread", IF SameDay(s) THEN "u_schedule" ELSE "error")
    /\ goal' = [goal EXCEPT ![h] = s]
    /\ UNCHANGED <<now, rows, bid, mem, patch, topics>>

\* The second read, in ValidateReservationUpdate: the slot that is checked.
UpdateReread(h) ==
    LET s == MergedSlot(rows[bid[h]], patch[h]) IN
    /\ Step(h, "u_reread", IF SameDay(s) THEN "u_schedule" ELSE "error")
    /\ goal' = [goal EXCEPT ![h] = s]
    /\ UNCHANGED <<now, rows, bid, mem, patch, topics>>

UpdateSchedule(h) == CheckSchedule(h, "u_schedule", "u_check")

UpdateCheck(h) == CheckConflicts(h, "u_check", "u_save")

\* Mutation of Updatable: the status is not looked at.
UpdatableAnyStatus(h) == patch[h].price # 0

\* The status looked at is the one the first read found.
Updatable(h) == patch[h].price # 0 /\ mem[h].status = "pending"

UpdateSave(h) ==
    /\ pc[h] = "u_save" /\ Updatable(h)
    /\ SaveRow(h, "u_save", "updated")

UpdateRefused(h) ==
    /\ pc[h] = "u_save" /\ ~Updatable(h)
    /\ Step(h, "u_save", "error")
    /\ UNCHANGED <<now, rows, locals, topics>>

(***************************************************************************)
(* Everything else                                                         *)
(***************************************************************************)
\* A request the first checks turn away: an invalid create, the cancellation
\* of a final booking, an update to an empty or past slot.
Refusable ==
    \/ \E r \in Requests : ~ValidRequest(r)
    \/ \E id \in BookingIds : Stored(id) /\ Final(rows[id])
    \/ \E id \in BookingIds, p \in Patches :
           /\ Stored(id)
           /\ LET merged == Merge(rows[id], p)
              IN  ~(merged.start < merged.end /\ merged.start >= now)

Refuse(h) ==
    /\ Refusable
    /\ Step(h, "idle", "error")
    /\ UNCHANGED <<now, rows, locals, topics>>

\* The venue service or the database answers with an error, or not at all.
CallFails(h) ==
    /\ pc[h] \in Calls
    /\ pc' = [pc EXCEPT ![h] = "error"]
    /\ UNCHANGED <<now, rows, locals, topics>>

Forget(h) ==
    /\ bid' = [bid EXCEPT ![h] = None]
    /\ mem' = [mem EXCEPT ![h] = None]
    /\ goal' = [goal EXCEPT ![h] = None]
    /\ patch' = [patch EXCEPT ![h] = None]

Respond(h) ==
    /\ pc[h] \in Done
    /\ pc' = [pc EXCEPT ![h] = "idle"]
    /\ Forget(h)
    /\ UNCHANGED <<now, rows, topics>>

Nobody == [h \in Handlers |-> None]

\* The process dies and restarts: every request in flight is lost, what was
\* committed or published stays.
Restart ==
    /\ pc' = [h \in Handlers |-> "idle"]
    /\ bid' = Nobody /\ mem' = Nobody /\ goal' = Nobody /\ patch' = Nobody
    /\ UNCHANGED <<now, rows, topics>>

Tick ==
    /\ \E t \in Clock : t > now /\ now' = t
    /\ UNCHANGED <<rows, pc, locals, topics>>

Init ==
    /\ now = 0
    /\ rows = [id \in BookingIds |-> None]
    /\ pc = [h \in Handlers |-> "idle"]
    /\ bid = Nobody /\ mem = Nobody /\ goal = Nobody /\ patch = Nobody
    /\ createdTopic = << >> /\ cancelledTopic = << >>

Create(h) ==
    \/ CreateReservation(h) \/ CreateSchedule(h) \/ CreateCheck(h)
    \/ CreatePrice(h) \/ CreateTxCheck(h)
    \/ InsertStored(h) \/ InsertRolledBack(h) \/ PublishCreated(h)

Cancel(h) == ReservationCancel(h) \/ CancelSave(h) \/ PublishCancelled(h)

Update(h) ==
    \/ ReservationUpdate(h) \/ UpdateReread(h) \/ UpdateSchedule(h)
    \/ UpdateCheck(h) \/ UpdateSave(h) \/ UpdateRefused(h)

Next ==
    \/ \E h \in Handlers :
           Create(h) \/ Cancel(h) \/ Update(h)
           \/ Refuse(h) \/ CallFails(h) \/ Respond(h)
    \/ Restart
    \/ Tick

Spec == Init /\ [][Next]_vars

(***************************************************************************)
(* Properties                                                              *)
(***************************************************************************)
Creating == {"c_schedule", "c_check", "c_price", "c_txcheck", "c_insert"}
Announcing == {"c_publish", "x_publish", "created"}
Updating == {"u_reread", "u_schedule", "u_check", "u_save"}

\* What a handler needs for its next step is there.
Equipped(h) ==
    /\ pc[h] \in Creating \union Announcing \union Updating \union {"x_save"}
           => mem[h] \in Row
    /\ pc[h] \in Announcing \union Updating \union {"x_save"}
           => bid[h] \in BookingIds /\ Stored(bid[h])
    /\ pc[h] \in Updating => patch[h] \in Patches
    /\ pc[h] \in Creating \union (Updating \ {"u_reread"}) => goal[h] \in Wanted

\* Every variable holds a value the code can give it, and a handler never
\* reaches a step without the booking, the row or the slot that step reads
\* (a nil dereference in the code).
TypeOK ==
    /\ now \in Times
    /\ rows \in [BookingIds -> Row \union {None}]
    /\ pc \in [Handlers -> PCs]
    /\ bid \in [Handlers -> BookingIds \union {None}]
    /\ mem \in [Handlers -> Row \union {None}]
    /\ goal \in [Handlers -> Wanted \union {None}]
    /\ patch \in [Handlers -> Patches \union {None}]
    /\ \A h \in Handlers : Equipped(h)
    /\ createdTopic \in Seq(CreatedEvent)
    /\ cancelledTopic \in Seq(BookingIds)

\* Every stored booking starts before it ends, however its two ends were read
\* and merged by concurrent updates.
StartBeforeEnd == \A id \in BookingIds : Stored(id) => rows[id].start < rows[id].end

\* Two live bookings of a venue never overlap: what the conflict check of
\* booking-service.go:407 is for.
NoDoubleBooking ==
    \A i, j \in BookingIds :
        /\ i # j /\ Stored(i) /\ Stored(j)
        /\ rows[i].venue = rows[j].venue
        /\ rows[i].status # "cancelled" /\ rows[j].status # "cancelled"
        => ~Overlap(rows[i], rows[j])

\* The time of day a clock shows.
TimeOfDay(t, zone) == (t + zone) % DayLength

\* On the clock its start is read on, a booking begins on the day on which, on
\* the clock of its end, it ends, within hours the venue service may answer.
OnOneDay(r, from, to) ==
    /\ DayOf(r.start, from) = DayOf(r.end, to)
    /\ \E reply \in VenueReplies :
           /\ reply.enabled /\ reply.opens # None /\ reply.closes # None
           /\ reply.opens <= TimeOfDay(r.start, from)
           /\ TimeOfDay(r.end, to) <= reply.closes

\* Every stored booking, created or moved, has two clocks on which it begins
\* and ends on one day and in the venue's hours.  The clocks may differ, and
\* the booking may last longer than a day: booking-service.go:321 and 451 take
\* the day of each end in that end's own location.
WithinADaysHours ==
    \A id \in BookingIds :
        Stored(id) => \E from, to \in Offsets : OnOneDay(rows[id], from, to)

\* A booking is refused at the conflict check only if another booking of the
\* venue overlaps it.
RefusedForOverlap ==
    \A h \in Handlers :
        pc[h] \in {"conflict", "norelation"} =>
            \E id \in BookingIds \ {bid[h]} :
                /\ Stored(id) /\ rows[id].venue = goal[h].venue
                /\ Overlap(rows[id], goal[h])

\* Every event names a stored booking: nothing is announced before it is
\* committed.
EventsNameBookings ==
    /\ \A i \in DOMAIN createdTopic : Stored(createdTopic[i].booking)
    /\ \A i \in DOMAIN cancelledTopic : Stored(cancelledTopic[i])

\* A client told that its booking was created has its booking in the table and
\* its event in the topic, at the price it was told.
AcknowledgedIsPublished ==
    \A h \in Handlers :
        pc[h] = "created" =>
            \E i \in DOMAIN createdTopic :
                createdTopic[i] = [booking |-> bid[h], price |-> mem[h].price]

\* A cancellation is announced only of a booking that is cancelled.
CancelEventMeansCancelled ==
    \A i \in DOMAIN cancelledTopic :
        Stored(cancelledTopic[i]) /\ rows[cancelledTopic[i]].status = "cancelled"

\* A completed or cancelled booking never changes again.
FinalRowsStay ==
    [][\A id \in BookingIds :
           Stored(id) /\ Final(rows[id]) => rows'[id] = rows[id]]_vars

\* A booking no update may touch keeps its slot and its price whatever the
\* handlers do together: a completed one never changes, a confirmed one is
\* at most cancelled.
SettledRowsStay ==
    [][\A id \in BookingIds :
           Stored(id) =>
               /\ rows[id].status = "completed" => rows'[id] = rows[id]
               /\ rows[id].status = "confirmed" =>
                      rows'[id] \in {rows[id], [rows[id] EXCEPT !.status = "cancelled"]}]_vars

\* What the table says of each booking, in the terms of the calendar.
Entries ==
    [id \in BookingIds |->
        IF rows[id] = None THEN None
        ELSE [slot |-> SlotOf(rows[id]), status |-> rows[id].status]]

Calendar == INSTANCE BookingCalendar WITH Slots <- Slot, calendar <- Entries

\* Served one at a time, the requests implement the abstract calendar.
CalendarRefined == Calendar!Spec

===============================================================================
