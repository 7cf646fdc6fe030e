-------------------------- MODULE ReservationProofs --------------------------
(***************************************************************************)
(* Theorems about Reservation, for any number of handlers and bookings and *)
(* any requests, patches and venue replies.                                *)
(***************************************************************************)
EXTENDS Reservation, TLAPS

USE DEF Step, locals, topics

-------------------------------------------------------------------------------
\* A price is a natural number because a booking in memory starts before it
\* ends: typing and order are proved together.
Ordered ==
    /\ StartBeforeEnd
    /\ \A h \in Handlers : mem[h] # None => mem[h].start < mem[h].end

Inv == TypeOK /\ Ordered

LEMMA ProductIsNat == ASSUME NEW a \in Nat, NEW b \in Nat PROVE a * b \in Nat
  OBVIOUS

LEMMA NewRowType ==
    ASSUME NEW r \in Requests, r.start < r.end
    PROVE  NewRow(r) \in Row /\ OnClocks(r, r.startZone, r.endZone) \in Wanted
  BY InputAssumption, TimeAssumption
     DEF NewRow, OnClocks, Row, Wanted, Offsets, Request, Times

LEMMA PricedType ==
    ASSUME NEW r \in Row, NEW reply \in VenueReplies, r.start < r.end
    PROVE  Priced(r, reply) \in Row
  <1>1. reply.price \in Nat /\ r.end - r.start \in Nat
    BY InputAssumption, TimeAssumption DEF Reply, Row, Times
  <1>2. reply.price * (r.end - r.start) \in Nat
    BY <1>1, ProductIsNat
  <1>3. QED
    BY <1>2 DEF Priced, Row

LEMMA MergeType ==
    ASSUME NEW r \in Row, NEW p \in Patches
    PROVE  Merge(r, p) \in Row /\ MergedSlot(r, p) \in Wanted
  <1>1. Merge(r, p) \in Row
    BY InputAssumption DEF Merge, Or, Row, Patch
  <1>2. ZoneOr(p.start, p.startZone) \in Offsets /\ ZoneOr(p.end, p.endZone) \in Offsets
    BY InputAssumption DEF ZoneOr, Offsets, Patch
  <1>3. QED
    BY <1>1, <1>2 DEF MergedSlot, OnClocks, Row, Wanted

LEMMA PublishedType ==
    ASSUME NEW S, NEW s \in Seq(S), NEW e \in S, NEW n \in Nat
    PROVE  Published(s, e, n) \in Seq(S)
  <1>1. [i \in 1 .. n |-> e] \in Seq(S)
    OBVIOUS
  <1>2. QED
    BY <1>1 DEF Published

-------------------------------------------------------------------------------
LEMMA InitInv == Init => Inv
  BY TimeAssumption
     DEF Init, Inv, TypeOK, Ordered, StartBeforeEnd, Equipped, Nobody, Stored,
         PCs, Creating, Announcing, Updating, Times

\* A step that moves a handler between two of its own steps.
LEMMA InvCheckSchedule ==
    ASSUME Inv, NEW h \in Handlers, NEW from, NEW to, CheckSchedule(h, from, to),
           \/ from = "c_schedule" /\ to = "c_check"
           \/ from = "u_schedule" /\ to = "u_check"
    PROVE  Inv'
  BY DEF CheckSchedule, Inv, TypeOK, Ordered, StartBeforeEnd, Equipped, Stored,
         PCs, Calls, Done, Creating, Announcing, Updating

LEMMA InvCheckConflicts ==
    ASSUME Inv, NEW h \in Handlers, NEW from, NEW to, CheckConflicts(h, from, to),
           \/ from = "c_check" /\ to = "c_price"
           \/ from = "c_txcheck" /\ to = "c_insert"
           \/ from = "u_check" /\ to = "u_save"
    PROVE  Inv'
  <1>1. AfterCheck(goal[h], bid[h], to) \in {"norelation", "conflict", to}
    BY DEF AfterCheck
  <1>2. QED
    BY <1>1 DEF CheckConflicts, Inv, TypeOK, Ordered, StartBeforeEnd, Equipped, Stored,
         PCs, Calls, Done, Creating, Announcing, Updating

LEMMA InvSaveRow ==
    ASSUME Inv, NEW h \in Handlers, NEW from, NEW to, SaveRow(h, from, to),
           \/ from = "x_save" /\ to = "x_publish"
           \/ from = "u_save" /\ to = "updated"
    PROVE  Inv'
  <1>1. mem[h] \in Row /\ bid[h] \in BookingIds /\ mem[h] # None /\ mem[h].start < mem[h].end
    BY NoneAssumption DEF SaveRow, Inv, TypeOK, Equipped, Ordered, Updating
  <1>2. QED
    BY <1>1 DEF SaveRow, WriteOutcomes, Inv, TypeOK, Ordered, StartBeforeEnd, Equipped, Stored,
         PCs, Calls, Done, Creating, Announcing, Updating

LEMMA InvCreate ==
    ASSUME Inv, NEW h \in Handlers, Create(h)
    PROVE  Inv'
  <1> USE DEF Inv, TypeOK, Ordered, StartBeforeEnd, Equipped, Stored,
              PCs, Calls, Done, Creating, Announcing, Updating
  <1>1. CASE CreateReservation(h)
    <2>1. PICK r \in Requests :
              /\ ValidRequest(r) /\ Step(h, "idle", "c_schedule")
              /\ mem' = [mem EXCEPT ![h] = NewRow(r)]
              /\ goal' = [goal EXCEPT ![h] = OnClocks(r, r.startZone, r.endZone)]
              /\ UNCHANGED <<now, rows, bid, patch, topics>>
      BY <1>1 DEF CreateReservation
    <2>2. /\ NewRow(r) \in Row /\ NewRow(r).start < NewRow(r).end
          /\ OnClocks(r, r.startZone, r.endZone) \in Wanted
      BY <2>1, NewRowType DEF ValidRequest, NewRow
    <2>3. QED
      BY <2>1, <2>2, NoneAssumption
  <1>2. CASE CreateSchedule(h)
    BY <1>2, InvCheckSchedule DEF CreateSchedule
  <1>3. CASE CreateCheck(h)
    BY <1>3, InvCheckConflicts DEF CreateCheck
  <1>4. CASE CreatePrice(h)
    <2>1. PICK reply \in VenueReplies :
              /\ Step(h, "c_price", IF mem[h].dur < HourLength THEN "error" ELSE "c_txcheck")
              /\ mem' = [mem EXCEPT ![h] = Priced(mem[h], reply)]
      BY <1>4 DEF CreatePrice
    <2>2. mem[h] \in Row /\ mem[h].start < mem[h].end
      BY <2>1, NoneAssumption
    <2>3. Priced(mem[h], reply) \in Row /\ Priced(mem[h], reply).start < Priced(mem[h], reply).end
      BY <2>2, PricedType DEF Priced, Row
    <2>4. QED
      BY <1>4, <2>1, <2>3 DEF CreatePrice
  <1>5. CASE CreateTxCheck(h)
    BY <1>5, InvCheckConflicts DEF CreateTxCheck
  <1>6. CASE InsertStored(h)
    <2>1. mem[h] \in Row /\ mem[h] # None /\ mem[h].start < mem[h].end
      BY <1>6, NoneAssumption DEF InsertStored
    <2>2. QED
      BY <1>6, <2>1 DEF InsertStored
  <1>7. CASE InsertRolledBack(h)
    BY <1>7 DEF InsertRolledBack
  <1>8. CASE PublishCreated(h)
    <2>1. PICK o \in PublishOutcomes(createdTopic) :
              /\ Step(h, "c_publish", IF o.acked THEN "created" ELSE "error")
              /\ createdTopic' = Published(createdTopic,
                                   [booking |-> bid[h], price |-> mem[h].price], o.copies)
      BY <1>8 DEF PublishCreated
    <2>2. o.copies \in Nat /\ [booking |-> bid[h], price |-> mem[h].price] \in CreatedEvent
      BY <2>1 DEF PublishOutcomes, MaxCopies, CreatedEvent, Row
    <2>3. createdTopic' \in Seq(CreatedEvent)
      BY <2>1, <2>2, PublishedType
    <2>4. QED
      BY <1>8, <2>1, <2>3 DEF PublishCreated
  <1>9. QED
    BY <1>1, <1>2, <1>3, <1>4, <1>5, <1>6, <1>7, <1>8 DEF Create

LEMMA InvCancel ==
    ASSUME Inv, NEW h \in Handlers, Cancel(h)
    PROVE  Inv'
  <1> USE DEF Inv, TypeOK, Ordered, StartBeforeEnd, Equipped, Stored,
              PCs, Calls, Done, Creating, Announcing, Updating
  <1>1. CASE ReservationCancel(h)
    <2>1. PICK id \in BookingIds :
              /\ Stored(id) /\ Step(h, "idle", "x_save")
              /\ bid' = [bid EXCEPT ![h] = id]
              /\ mem' = [mem EXCEPT ![h] = [rows[id] EXCEPT !.status = "cancelled"]]
              /\ UNCHANGED <<now, rows, goal, patch, topics>>
      BY <1>1 DEF ReservationCancel
    <2> DEFINE row == [rows[id] EXCEPT !.status = "cancelled"]
    <2>2. rows[id] \in Row /\ rows[id].start < rows[id].end
      BY <2>1
    <2>3. row \in Row /\ row.start < row.end
      BY <2>2 DEF Row, Statuses
    <2>4. QED
      BY <2>1, <2>3
  <1>2. CASE CancelSave(h)
    BY <1>2, InvSaveRow DEF CancelSave
  <1>3. CASE PublishCancelled(h)
    <2>1. PICK o \in PublishOutcomes(cancelledTopic) :
              /\ Step(h, "x_publish", "cancelled")
              /\ cancelledTopic' = Published(cancelledTopic, bid[h], o.copies)
      BY <1>3 DEF PublishCancelled
    <2>2. o.copies \in Nat /\ bid[h] \in BookingIds
      BY <2>1 DEF PublishOutcomes, MaxCopies
    <2>3. cancelledTopic' \in Seq(BookingIds)
      BY <2>1, <2>2, PublishedType
    <2>4. QED
      BY <1>3, <2>1, <2>3 DEF PublishCancelled
  <1>4. QED
    BY <1>1, <1>2, <1>3 DEF Cancel

LEMMA InvUpdate ==
    ASSUME Inv, NEW h \in Handlers, Update(h)
    PROVE  Inv'
  <1> USE DEF Inv, TypeOK, Ordered, StartBeforeEnd, Equipped, Stored,
              PCs, Calls, Done, Creating, Announcing, Updating
  <1>1. CASE ReservationUpdate(h)
    <2>1. PICK id \in BookingIds, p \in Patches :
              /\ Stored(id)
              /\ Merge(rows[id], p).start < Merge(rows[id], p).end
              /\ Step(h, "idle", "u_reread")
              /\ bid' = [bid EXCEPT ![h] = id]
              /\ mem' = [mem EXCEPT ![h] = Merge(rows[id], p)]
              /\ patch' = [patch EXCEPT ![h] = p]
              /\ UNCHANGED <<now, rows, goal, topics>>
      BY <1>1 DEF ReservationUpdate
    <2>2. Merge(rows[id], p) \in Row
      BY <2>1, MergeType
    <2>3. QED
      BY <2>1, <2>2
  <1>2. CASE UpdateReread(h)
    <2>1. rows[bid[h]] \in Row /\ patch[h] \in Patches
      BY <1>2 DEF UpdateReread
    <2>2. MergedSlot(rows[bid[h]], patch[h]) \in Wanted
      BY <2>1, MergeType
    <2>3. QED
      BY <1>2, <2>2 DEF UpdateReread
  <1>3. CASE UpdateSchedule(h)
    BY <1>3, InvCheckSchedule DEF UpdateSchedule
  <1>4. CASE UpdateCheck(h)
    BY <1>4, InvCheckConflicts DEF UpdateCheck
  <1>5. CASE UpdateSave(h)
    BY <1>5, InvSaveRow DEF UpdateSave
  <1>6. CASE UpdateRefused(h)
    BY <1>6 DEF UpdateRefused
  <1>7. QED
    BY <1>1, <1>2, <1>3, <1>4, <1>5, <1>6 DEF Update

LEMMA InvRest ==
    ASSUME Inv,
           \/ \E h \in Handlers : Refuse(h) \/ CallFails(h) \/ Respond(h)
           \/ Restart \/ Tick \/ UNCHANGED vars
    PROVE  Inv'
  <1> USE DEF Inv, TypeOK, Ordered, StartBeforeEnd, Equipped, Stored,
              PCs, Calls, Done, Creating, Announcing, Updating
  <1>1. CASE \E h \in Handlers : Refuse(h)
    BY <1>1 DEF Refuse
  <1>2. CASE \E h \in Handlers : CallFails(h)
    BY <1>2 DEF CallFails
  <1>3. CASE \E h \in Handlers : Respond(h)
    BY <1>3 DEF Respond, Forget
  <1>4. CASE Restart
    BY <1>4 DEF Restart, Nobody
  <1>5. CASE Tick
    BY <1>5, TimeAssumption DEF Tick
  <1>6. CASE UNCHANGED vars
    BY <1>6 DEF vars
  <1>7. QED
    BY <1>1, <1>2, <1>3, <1>4, <1>5, <1>6

LEMMA InvIsInvariant == Spec => []Inv
  <1>1. Inv /\ [Next]_vars => Inv'
    BY InvCreate, InvCancel, InvUpdate, InvRest DEF Next
  <1>2. QED
    BY <1>1, InitInv, PTL DEF Spec

\* Every variable keeps its type and no handler reaches a step without what
\* the step reads, whatever the handlers do together.
THEOREM TypeCorrect == Spec => []TypeOK
  BY InvIsInvariant, PTL DEF Inv

\* However the reads and whole-row saves of concurrent updates interleave, a
\* stored booking starts before it ends.
THEOREM StoredStartBeforeEnd == Spec => []StartBeforeEnd
  BY InvIsInvariant, PTL DEF Inv, Ordered

-------------------------------------------------------------------------------
(***************************************************************************)
(* What settled bookings keep.                                             *)
(***************************************************************************)
LEMMA WhoWrites ==
    ASSUME [Next]_vars, rows' # rows
    PROVE  \E h \in Handlers : CancelSave(h) \/ UpdateSave(h) \/ InsertStored(h)
  <1> USE DEF Create, Cancel, Update
  <1>1. CASE UNCHANGED vars
    BY <1>1 DEF vars
  <1>2. ASSUME NEW h \in Handlers, Create(h)
        PROVE  InsertStored(h)
    BY <1>2 DEF CreateReservation, CreateSchedule, CreateCheck, CreatePrice, CreateTxCheck,
                InsertRolledBack, PublishCreated, CheckSchedule, CheckConflicts
  <1>3. ASSUME NEW h \in Handlers, Cancel(h)
        PROVE  CancelSave(h)
    BY <1>3 DEF ReservationCancel, PublishCancelled
  <1>4. ASSUME NEW h \in Handlers, Update(h)
        PROVE  UpdateSave(h)
    BY <1>4 DEF ReservationUpdate, UpdateReread, UpdateSchedule, UpdateCheck, UpdateRefused,
                CheckSchedule, CheckConflicts
  <1>5. ASSUME NEW h \in Handlers PROVE ~(Refuse(h) \/ CallFails(h) \/ Respond(h))
    BY DEF Refuse, CallFails, Respond
  <1>6. ~Restart /\ ~Tick
    BY DEF Restart, Tick
  <1>7. QED
    BY <1>1, <1>2, <1>3, <1>4, <1>5, <1>6 DEF Next

\* What a handler about to save holds of a booking nobody may update: its
\* status, so that the save is refused, or the same booking cancelled.
HoldsSettled(h) ==
    LET r == rows[bid[h]] IN
    /\ pc[h] \in Updating /\ r.status \in {"confirmed", "completed"}
           => mem[h].status = r.status
    /\ pc[h] = "x_save" =>
           /\ mem[h].status = "cancelled" /\ r.status # "completed"
           /\ r.status = "confirmed" => mem[h] = [r EXCEPT !.status = "cancelled"]

SettledInv == \A h \in Handlers : HoldsSettled(h)

\* A save turns a booking pending or cancelled, never confirmed or completed.
LEMMA SavesUnsettled ==
    ASSUME Inv, SettledInv, NEW h \in Handlers, CancelSave(h) \/ UpdateSave(h)
    PROVE  /\ rows' = rows \/ rows' = [rows EXCEPT ![bid[h]] = mem[h]]
           /\ bid[h] \in BookingIds /\ Stored(bid[h]) /\ mem[h] \in Row
           /\ mem[h].status \in {"pending", "cancelled"}
           /\ rows[bid[h]].status # "completed"
           /\ rows[bid[h]].status = "confirmed" =>
                  mem[h] = [rows[bid[h]] EXCEPT !.status = "cancelled"]
           /\ UNCHANGED <<bid, mem, patch>>
           /\ \A k \in Handlers : k # h => pc'[k] = pc[k]
           /\ pc'[h] \in {"x_publish", "updated", "error"}
  BY DEF Inv, TypeOK, Equipped, SettledInv, HoldsSettled, CancelSave, UpdateSave, SaveRow,
         Updatable, Updating, WriteOutcomes

LEMMA SettledWrite ==
    ASSUME Inv, SettledInv, NEW h \in Handlers, CancelSave(h) \/ UpdateSave(h)
    PROVE  SettledInv'
  <1>1. SUFFICES ASSUME NEW k \in Handlers PROVE HoldsSettled(k)'
    BY DEF SettledInv
  <1>2. /\ pc'[k] \in Updating \union {"x_save"} => pc'[k] = pc[k]
        /\ bid'[k] = bid[k] /\ mem'[k] = mem[k]
    BY SavesUnsettled DEF Updating
  <1>3. pc[k] \in Updating \union {"x_save"} => bid[k] \in BookingIds /\ Stored(bid[k])
    BY DEF Inv, TypeOK, Equipped
  <1>4. CASE rows' = rows
    BY <1>2, <1>4 DEF SettledInv, HoldsSettled
  <1>5. CASE rows' = [rows EXCEPT ![bid[h]] = mem[h]] /\ bid[k] = bid[h]
    <2>1. rows'[bid[k]] = mem[h] /\ mem[h].status \in {"pending", "cancelled"}
      BY <1>5, SavesUnsettled DEF Inv, TypeOK
    <2>2. QED
      BY <1>2, <2>1 DEF SettledInv, HoldsSettled
  <1>6. CASE rows' = [rows EXCEPT ![bid[h]] = mem[h]] /\ bid[k] # bid[h]
    <2>1. pc[k] \in Updating \union {"x_save"} => rows'[bid[k]] = rows[bid[k]]
      BY <1>3, <1>6 DEF Inv, TypeOK
    <2>2. QED
      BY <1>2, <2>1 DEF SettledInv, HoldsSettled
  <1>7. QED
    BY <1>4, <1>5, <1>6, SavesUnsettled

LEMMA SettledInsert ==
    ASSUME Inv, SettledInv, NEW h \in Handlers, InsertStored(h)
    PROVE  SettledInv'
  <1>1. PICK id \in BookingIds :
            /\ ~Stored(id) /\ rows' = [rows EXCEPT ![id] = mem[h]]
            /\ bid' = [bid EXCEPT ![h] = id] /\ UNCHANGED mem
            /\ pc'[h] \in {"c_publish", "error"}
            /\ \A k \in Handlers : k # h => pc'[k] = pc[k] /\ bid'[k] = bid[k]
    BY DEF InsertStored, Inv, TypeOK
  <1>2. SUFFICES ASSUME NEW k \in Handlers PROVE HoldsSettled(k)'
    BY DEF SettledInv
  <1>3. CASE k = h
    BY <1>1, <1>3 DEF HoldsSettled, Updating
  <1>4. CASE k # h
    <2>1. pc[k] \in Updating \union {"x_save"} => rows'[bid[k]] = rows[bid[k]]
      BY <1>1 DEF Inv, TypeOK, Equipped, Stored
    <2>2. QED
      BY <1>1, <1>4, <2>1 DEF SettledInv, HoldsSettled
  <1>5. QED
    BY <1>3, <1>4

\* Only the two first reads put a handler on its way to a save.
\* A handler whose save is not ahead, or that nothing happened to.
LEMMA SettledFar ==
    ASSUME NEW h \in Handlers, pc'[h] \notin Updating \union {"x_save"}
    PROVE  HoldsSettled(h)'
  BY DEF HoldsSettled, Updating

LEMMA SettledUntouched ==
    ASSUME NEW h \in Handlers, HoldsSettled(h), rows' = rows,
           pc'[h] = pc[h], bid'[h] = bid[h], mem'[h] = mem[h]
    PROVE  HoldsSettled(h)'
  BY DEF HoldsSettled, Updating

LEMMA SettledStep ==
    ASSUME Inv, SettledInv, [Next]_vars
    PROVE  SettledInv'
  <1> USE DEF Inv, TypeOK, SettledInv, HoldsSettled, Updating, Creating, Announcing
  <1>1. ASSUME NEW h \in Handlers, Create(h) PROVE SettledInv'
    <2>1. CASE InsertStored(h)
      BY <2>1, SettledInsert
    <2>2. CASE ~InsertStored(h)
      <3>1. /\ rows' = rows /\ pc'[h] \notin Updating \union {"x_save"}
            /\ \A k \in Handlers : k # h =>
                   pc'[k] = pc[k] /\ bid'[k] = bid[k] /\ mem'[k] = mem[k]
        BY <1>1, <2>2
           DEF Create, CreateReservation, CreateSchedule, CreateCheck, CreatePrice,
               CreateTxCheck, InsertRolledBack, PublishCreated,
               CheckSchedule, CheckConflicts, AfterCheck
      <3>2. ASSUME NEW k \in Handlers PROVE HoldsSettled(k)'
        <4>1. CASE k = h
          BY <3>1, <4>1, SettledFar
        <4>2. CASE k # h
          <5>1. HoldsSettled(k)
            BY <3>2
          <5>2. QED
            BY ONLY <3>1, <3>2, <4>2, <5>1, SettledUntouched
        <4>3. QED
          BY <4>1, <4>2
      <3>3. QED
        BY <3>2
    <2>3. QED
      BY <2>1, <2>2
  <1>2. ASSUME NEW h \in Handlers, Cancel(h) PROVE SettledInv'
    <2>1. CASE ReservationCancel(h)
      BY <2>1 DEF ReservationCancel, Final, Stored, Row
    <2>2. CASE CancelSave(h)
      BY <2>2, SettledWrite
    <2>3. CASE PublishCancelled(h)
      BY <2>3 DEF PublishCancelled
    <2>4. QED
      BY <1>2, <2>1, <2>2, <2>3 DEF Cancel
  <1>3. ASSUME NEW h \in Handlers, Update(h) PROVE SettledInv'
    <2>1. CASE ReservationUpdate(h)
      <3>1. ASSUME NEW r \in Row, NEW p \in Patches PROVE Merge(r, p).status = r.status
        BY DEF Merge, Row
      <3>2. PICK id \in BookingIds, p \in Patches :
                /\ rows[id] \in Row /\ rows' = rows
                /\ bid' = [bid EXCEPT ![h] = id]
                /\ mem' = [mem EXCEPT ![h] = Merge(rows[id], p)]
                /\ pc' = [pc EXCEPT ![h] = "u_reread"]
        BY <2>1 DEF ReservationUpdate, Stored
      <3>3. mem'[h].status = rows'[bid'[h]].status
        BY <3>1, <3>2
      <3>4. \A k \in Handlers : k # h =>
                pc'[k] = pc[k] /\ bid'[k] = bid[k] /\ mem'[k] = mem[k]
        BY <3>2
      <3>5. QED
        BY <3>2, <3>3, <3>4
    <2>2. CASE UpdateReread(h)
      BY <2>2 DEF UpdateReread
    <2>3. CASE UpdateSchedule(h) \/ UpdateCheck(h)
      <3>1. /\ UNCHANGED <<rows, bid, mem>> /\ pc[h] \in Updating
            /\ \A k \in Handlers : k # h => pc'[k] = pc[k]
        BY <2>3 DEF UpdateSchedule, UpdateCheck, CheckSchedule, CheckConflicts
      <3>2. pc'[h] # "x_save"
        BY <2>3 DEF UpdateSchedule, UpdateCheck, CheckSchedule, CheckConflicts, AfterCheck
      <3>3. QED
        BY <3>1, <3>2
    <2>4. CASE UpdateSave(h)
      BY <2>4, SettledWrite
    <2>5. CASE UpdateRefused(h)
      BY <2>5 DEF UpdateRefused
    <2>6. QED
      BY <1>3, <2>1, <2>2, <2>3, <2>4, <2>5 DEF Update
  <1>4. ASSUME NEW h \in Handlers, Refuse(h) \/ CallFails(h) \/ Respond(h) PROVE SettledInv'
    BY <1>4 DEF Refuse, CallFails, Respond, Forget, Calls, Done
  <1>5. CASE Restart \/ Tick \/ UNCHANGED vars
    BY <1>5 DEF Restart, Tick, vars
  <1>6. QED
    BY <1>1, <1>2, <1>3, <1>4, <1>5 DEF Next

LEMMA SettledIsInvariant == Spec => [](Inv /\ SettledInv)
  <1>1. Init => SettledInv
    BY DEF Init, SettledInv, HoldsSettled, Updating
  <1>2. QED
    BY <1>1, SettledStep, InvIsInvariant, PTL DEF Spec

LEMMA SettledRowsStep ==
    ASSUME Inv, SettledInv, [Next]_vars, NEW id \in BookingIds, Stored(id)
    PROVE  /\ rows[id].status = "completed" => rows'[id] = rows[id]
           /\ rows[id].status = "confirmed" =>
                  rows'[id] \in {rows[id], [rows[id] EXCEPT !.status = "cancelled"]}
  <1>1. CASE rows' = rows
    BY <1>1
  <1>2. ASSUME NEW h \in Handlers, InsertStored(h) PROVE rows'[id] = rows[id]
    BY <1>2 DEF InsertStored, Inv, TypeOK
  <1>3. ASSUME NEW h \in Handlers, CancelSave(h) \/ UpdateSave(h)
        PROVE  \/ rows'[id] = rows[id]
               \/ /\ rows[id].status # "completed"
                  /\ rows[id].status = "confirmed" =>
                         rows'[id] = [rows[id] EXCEPT !.status = "cancelled"]
    BY <1>3, SavesUnsettled DEF Inv, TypeOK
  <1>4. QED
    BY <1>1, <1>2, <1>3, WhoWrites

\* A confirmed booking keeps its slot and price until it is cancelled and a
\* completed one never changes, for any number of concurrent cancellations
\* and updates of it.
THEOREM SettledRowsAreKept == Spec => SettledRowsStay
  <1>1. Inv /\ SettledInv /\ [Next]_vars =>
            [\A id \in BookingIds :
               Stored(id) =>
                 /\ rows[id].status = "completed" => rows'[id] = rows[id]
                 /\ rows[id].status = "confirmed" =>
                      rows'[id] \in {rows[id], [rows[id] EXCEPT !.status = "cancelled"]}]_vars
    BY SettledRowsStep
  <1>2. QED
    BY <1>1, SettledIsInvariant, PTL DEF Spec, SettledRowsStay
-------------------------------------------------------------------------------
(***************************************************************************)
(* What is announced.                                                      *)
(***************************************************************************)
LEMMA StoredStays ==
    ASSUME Inv, SettledInv, [Next]_vars, NEW id \in BookingIds, Stored(id)
    PROVE  Stored(id)'
  <1>1. CASE rows' = rows
    BY <1>1 DEF Stored
  <1>2. ASSUME NEW h \in Handlers, InsertStored(h) PROVE Stored(id)'
    BY <1>2 DEF InsertStored, Inv, TypeOK, Stored
  <1>3. ASSUME NEW h \in Handlers, CancelSave(h) \/ UpdateSave(h) PROVE Stored(id)'
    BY <1>3, SavesUnsettled, NoneAssumption DEF Inv, TypeOK, Stored
  <1>4. QED
    BY <1>1, <1>2, <1>3, WhoWrites

\* Only a handler that publishes writes to a topic.
LEMMA WhoPublishes ==
    ASSUME [Next]_vars, topics' # topics
    PROVE  \E h \in Handlers : PublishCreated(h) \/ PublishCancelled(h)
  <1> USE DEF Create, Cancel, Update
  <1>1. CASE UNCHANGED vars
    BY <1>1 DEF vars
  <1>2. ASSUME NEW h \in Handlers, Create(h) PROVE PublishCreated(h)
    BY <1>2 DEF CreateReservation, CreateSchedule, CreateCheck, CreatePrice, CreateTxCheck,
                InsertStored, InsertRolledBack, CheckSchedule, CheckConflicts
  <1>3. ASSUME NEW h \in Handlers, Cancel(h) PROVE PublishCancelled(h)
    BY <1>3 DEF ReservationCancel, CancelSave, SaveRow
  <1>4. ASSUME NEW h \in Handlers PROVE ~Update(h)
    BY DEF ReservationUpdate, UpdateReread, UpdateSchedule, UpdateCheck, UpdateSave,
           UpdateRefused, CheckSchedule, CheckConflicts, SaveRow
  <1>5. ASSUME NEW h \in Handlers PROVE ~(Refuse(h) \/ CallFails(h) \/ Respond(h))
    BY DEF Refuse, CallFails, Respond
  <1>6. ~Restart /\ ~Tick
    BY DEF Restart, Tick
  <1>7. QED
    BY <1>1, <1>2, <1>3, <1>4, <1>5, <1>6 DEF Next

\* A topic keeps what it held, and the rest of it is the event just published.
LEMMA PublishedHolds ==
    ASSUME NEW S, NEW s \in Seq(S), NEW e \in S, NEW n \in Nat
    PROVE  /\ \A i \in DOMAIN s : i \in DOMAIN Published(s, e, n) /\ Published(s, e, n)[i] = s[i]
           /\ \A i \in DOMAIN Published(s, e, n) \ DOMAIN s : Published(s, e, n)[i] = e
           /\ n > 0 => \E i \in DOMAIN Published(s, e, n) : Published(s, e, n)[i] = e
  <1> DEFINE t == [i \in 1 .. n |-> e]
             u == Published(s, e, n)
  <1>1. t \in Seq(S) /\ Len(t) = n /\ u = s \o t
    BY DEF Published
  <1>2. Len(s) \in Nat /\ DOMAIN s = 1 .. Len(s)
    OBVIOUS
  <1>3. DOMAIN u = 1 .. Len(s) + n
    BY <1>1, <1>2
  <1>4. \A i \in 1 .. Len(s) : u[i] = s[i]
    BY <1>1, <1>2
  <1>5. ASSUME NEW i \in 1 .. Len(s) + n, i > Len(s) PROVE u[i] = e
    <2>1. i - Len(s) \in 1 .. n
      BY <1>2, <1>5
    <2>2. u[i] = t[i - Len(s)]
      BY <1>1, <1>2, <1>5
    <2>3. QED
      BY <2>1, <2>2
  <1> HIDE DEF t, u
  <1>6. \A i \in DOMAIN s : i \in DOMAIN u /\ u[i] = s[i]
    BY <1>2, <1>3, <1>4
  <1>7. \A i \in DOMAIN u \ DOMAIN s : u[i] = e
    BY <1>2, <1>3, <1>5
  <1>8. n > 0 => Len(s) + n \in DOMAIN u /\ Len(s) + n > Len(s)
    BY <1>2, <1>3
  <1>9. n > 0 => \E i \in DOMAIN u : u[i] = e
    BY <1>2, <1>3, <1>5, <1>8
  <1>10. QED
    BY <1>6, <1>7, <1>9 DEF u

AnnouncedInv == EventsNameBookings /\ AcknowledgedIsPublished

LEMMA CreatedPublished ==
    ASSUME Inv, SettledInv, AnnouncedInv, NEW h \in Handlers, PublishCreated(h)
    PROVE  AnnouncedInv'
  <1> DEFINE e == [booking |-> bid[h], price |-> mem[h].price]
  <1>1. PICK o \in PublishOutcomes(createdTopic) :
            /\ pc[h] = "c_publish"
            /\ pc' = [pc EXCEPT ![h] = IF o.acked THEN "created" ELSE "error"]
            /\ createdTopic' = Published(createdTopic, e, o.copies)
            /\ UNCHANGED <<rows, bid, mem, cancelledTopic>>
    BY DEF PublishCreated
  <1>2. o.copies \in Nat /\ (o.acked => o.copies > 0)
    BY <1>1 DEF PublishOutcomes, MaxCopies
  <1>3. e \in CreatedEvent /\ Stored(bid[h])
    BY <1>1 DEF Inv, TypeOK, Equipped, Announcing, CreatedEvent, Row
  <1>4. createdTopic \in Seq(CreatedEvent)
    BY DEF Inv, TypeOK
  <1>5. /\ \A i \in DOMAIN createdTopic :
               i \in DOMAIN createdTopic' /\ createdTopic'[i] = createdTopic[i]
        /\ \A i \in DOMAIN createdTopic' \ DOMAIN createdTopic : createdTopic'[i] = e
        /\ o.acked => \E i \in DOMAIN createdTopic' : createdTopic'[i] = e
    BY <1>1, <1>2, <1>3, <1>4, PublishedHolds
  <1>6. EventsNameBookings'
    BY <1>1, <1>3, <1>5 DEF AnnouncedInv, EventsNameBookings, Stored
  <1>7. ASSUME NEW k \in Handlers, pc'[k] = "created"
        PROVE  \E i \in DOMAIN createdTopic' :
                   createdTopic'[i] = [booking |-> bid'[k], price |-> mem'[k].price]
    <2>1. CASE k = h
      <3>1. o.acked
        BY <1>1, <1>7, <2>1 DEF Inv, TypeOK
      <3>2. QED
        BY <1>1, <1>5, <2>1, <3>1
    <2>2. CASE k # h
      <3>1. pc[k] = "created"
        BY <1>1, <1>7, <2>2 DEF Inv, TypeOK
      <3>2. QED
        BY <1>1, <1>5, <3>1 DEF AnnouncedInv, AcknowledgedIsPublished
    <2>3. QED
      BY <2>1, <2>2
  <1>8. QED
    BY <1>6, <1>7 DEF AnnouncedInv, AcknowledgedIsPublished

LEMMA CancelledPublished ==
    ASSUME Inv, SettledInv, AnnouncedInv, NEW h \in Handlers, PublishCancelled(h)
    PROVE  AnnouncedInv'
  <1>1. PICK o \in PublishOutcomes(cancelledTopic) :
            /\ pc[h] = "x_publish" /\ pc' = [pc EXCEPT ![h] = "cancelled"]
            /\ cancelledTopic' = Published(cancelledTopic, bid[h], o.copies)
            /\ UNCHANGED <<rows, bid, mem, createdTopic>>
    BY DEF PublishCancelled
  <1>2. o.copies \in Nat
    BY <1>1 DEF PublishOutcomes, MaxCopies
  <1>3. bid[h] \in BookingIds /\ Stored(bid[h]) /\ cancelledTopic \in Seq(BookingIds)
    BY <1>1 DEF Inv, TypeOK, Equipped, Announcing
  <1>4. \A i \in DOMAIN cancelledTopic' :
            \/ i \in DOMAIN cancelledTopic /\ cancelledTopic'[i] = cancelledTopic[i]
            \/ cancelledTopic'[i] = bid[h]
    BY <1>1, <1>2, <1>3, PublishedHolds
  <1>5. EventsNameBookings'
    BY <1>1, <1>3, <1>4 DEF AnnouncedInv, EventsNameBookings, Stored
  <1>6. AcknowledgedIsPublished'
    BY <1>1 DEF AnnouncedInv, AcknowledgedIsPublished, Inv, TypeOK
  <1>7. QED
    BY <1>5, <1>6 DEF AnnouncedInv

\* Only PublishCreated acknowledges, and an acknowledged handler keeps what it
\* holds until it has answered.
LEMMA StillAcknowledged ==
    ASSUME Inv, [Next]_vars, UNCHANGED topics, NEW k \in Handlers, pc'[k] = "created",
           \A h \in Handlers : ~PublishCreated(h)
    PROVE  pc[k] = "created" /\ bid'[k] = bid[k] /\ mem'[k] = mem[k]
  <1> USE DEF Inv, TypeOK
  <1>1. ASSUME NEW h \in Handlers, Create(h)
        PROVE  pc[k] = "created" /\ bid'[k] = bid[k] /\ mem'[k] = mem[k]
    <2>1. ASSUME NEW to \in PCs PROVE AfterCheck(goal[h], bid[h], to) \in {"norelation", "conflict", to}
      BY DEF AfterCheck
    <2>2. QED
      BY <1>1, <2>1
         DEF Create, CreateReservation, CreateSchedule, CreateCheck, CreatePrice, CreateTxCheck,
             InsertStored, InsertRolledBack, CheckSchedule, CheckConflicts, PCs, Calls, Done
  <1>2. ASSUME NEW h \in Handlers, Cancel(h)
        PROVE  pc[k] = "created" /\ bid'[k] = bid[k] /\ mem'[k] = mem[k]
    BY <1>2 DEF Cancel, ReservationCancel, CancelSave, SaveRow, PublishCancelled
  <1>3. ASSUME NEW h \in Handlers, Update(h)
        PROVE  pc[k] = "created" /\ bid'[k] = bid[k] /\ mem'[k] = mem[k]
    BY <1>3 DEF Update, ReservationUpdate, UpdateReread, UpdateSchedule, UpdateCheck, UpdateSave,
                UpdateRefused, CheckSchedule, CheckConflicts, AfterCheck, SaveRow
  <1>4. ASSUME NEW h \in Handlers, Refuse(h) \/ CallFails(h) \/ Respond(h)
        PROVE  pc[k] = "created" /\ bid'[k] = bid[k] /\ mem'[k] = mem[k]
    BY <1>4 DEF Refuse, CallFails, Respond, Forget
  <1>5. CASE Restart \/ Tick \/ UNCHANGED vars
    BY <1>5 DEF Restart, Tick, vars
  <1>6. QED
    BY <1>1, <1>2, <1>3, <1>4, <1>5 DEF Next

LEMMA AnnouncedStep ==
    ASSUME Inv, SettledInv, AnnouncedInv, [Next]_vars
    PROVE  AnnouncedInv'
  <1>1. CASE \E h \in Handlers : PublishCreated(h)
    BY <1>1, CreatedPublished
  <1>2. CASE \E h \in Handlers : PublishCancelled(h)
    BY <1>2, CancelledPublished
  <1>3. CASE \A h \in Handlers : ~PublishCreated(h) /\ ~PublishCancelled(h)
    <2>1. UNCHANGED topics
      BY <1>3, WhoPublishes
    <2>2. /\ \A i \in DOMAIN createdTopic : createdTopic[i].booking \in BookingIds
          /\ \A i \in DOMAIN cancelledTopic : cancelledTopic[i] \in BookingIds
      <3>1. createdTopic \in Seq(CreatedEvent) /\ cancelledTopic \in Seq(BookingIds)
        BY DEF Inv, TypeOK
      <3>2. \A i \in DOMAIN createdTopic : createdTopic[i] \in CreatedEvent
        BY <3>1
      <3>3. \A i \in DOMAIN cancelledTopic : cancelledTopic[i] \in BookingIds
        BY <3>1
      <3>4. QED
        BY <3>2, <3>3 DEF CreatedEvent
    <2>3. EventsNameBookings'
      BY <2>1, <2>2, StoredStays DEF AnnouncedInv, EventsNameBookings
    <2>4. AcknowledgedIsPublished'
      BY <1>3, <2>1, StillAcknowledged DEF AnnouncedInv, AcknowledgedIsPublished
    <2>5. QED
      BY <2>3, <2>4 DEF AnnouncedInv
  <1>4. QED
    BY <1>1, <1>2, <1>3

LEMMA AnnouncedIsInvariant == Spec => [](Inv /\ SettledInv /\ AnnouncedInv)
  <1>1. Init => AnnouncedInv
    BY DEF Init, AnnouncedInv, EventsNameBookings, AcknowledgedIsPublished
  <1>2. QED
    BY <1>1, AnnouncedStep, SettledIsInvariant, PTL DEF Spec

\* No event, of a creation or of a cancellation, names a booking that is not in
\* the table, whatever fails between the commit and the publication.
THEOREM EventsAreOfBookings == Spec => []EventsNameBookings
  BY AnnouncedIsInvariant, PTL DEF AnnouncedInv

\* A client told that its booking was created has its event in the topic, at
\* the price it was told.
THEOREM AcknowledgedHasItsEvent == Spec => []AcknowledgedIsPublished
  BY AnnouncedIsInvariant, PTL DEF AnnouncedInv
===============================================================================
