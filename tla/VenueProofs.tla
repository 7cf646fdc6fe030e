------------------------------ MODULE VenueProofs ------------------------------
(***************************************************************************)
(* Theorems about Venue, for any number of handlers and venues and any     *)
(* requests: what two handlers that read before they write cannot break.   *)
(***************************************************************************)
EXTENDS Venue, TLAPS

-------------------------------------------------------------------------------
\* Types

LEMMA DecodedType ==
    ASSUME NEW w \in Week PROVE Decoded(w) \in Week
  BY DEF Week, Day, Decoded, DayOff

LEMMA RequestType ==
    ASSUME NEW r \in Requests
    PROVE  r.week \in Week /\ [r EXCEPT !.week = Decoded(r.week)] \in Row
  <1>1. r \in Row
    BY InputAssumption
  <1>2. r.week \in Week
    BY <1>1 DEF Row
  <1>3. Decoded(r.week) \in Week
    BY <1>2, DecodedType
  <1>4. QED
    BY <1>1, <1>2, <1>3 DEF Row

LEMMA ScheduleType ==
    ASSUME NEW row \in Row, NEW w \in Schedules
    PROVE  w \in Week /\ [row EXCEPT !.week = Decoded(w)] \in Row
  <1>1. w \in Week
    BY InputAssumption
  <1>2. Decoded(w) \in Week
    BY <1>1, DecodedType
  <1>3. QED
    BY <1>1, <1>2 DEF Row

LEMMA DefaultsType ==
    ASSUME NEW v \in Row PROVE WithDefaults(v) \in Row
  <1>1. [d \in Weekdays |-> [v.week[d] EXCEPT !.enabled = TRUE]] \in Week
    BY DEF Row, Week, Day
  <1>2. QED
    BY <1>1 DEF Row, WithDefaults

LEMMA TypeInit == Init => TypeOK
  BY DEF Init, TypeOK, Nobody, PCs, Answers, Stored

LEMMA TypeStep == TypeOK /\ [Next]_vars => TypeOK'
  <1> SUFFICES ASSUME TypeOK, [Next]_vars PROVE TypeOK'
    OBVIOUS
  <1> USE DEF TypeOK, PCs, Answers, Stored, Live, Step
  <1>1. ASSUME NEW h \in Handlers, Create(h) PROVE TypeOK'
    BY <1>1, RequestType DEF Create
  <1>2. ASSUME NEW h \in Handlers, Insert(h) PROVE TypeOK'
    <2>1. PICK id \in VenueIds : ~Stored(id) /\ rows' = [rows EXCEPT ![id] = WithDefaults(mem[h])]
                                 /\ vid' = [vid EXCEPT ![h] = id]
      BY <1>2 DEF Insert
    <2>2. WithDefaults(mem[h]) \in Row /\ WithDefaults(mem[h]) # None
      BY <1>2, DefaultsType, NoneAssumption DEF Insert
    <2>3. /\ pc' \in [Handlers -> PCs] /\ pc'[h] \in {"created", "internal"}
          /\ \A k \in Handlers : k # h => pc'[k] = pc[k]
          /\ UNCHANGED <<deleted, mem>>
      BY <1>2 DEF Insert
    <2>4. \A k \in Handlers : k # h => vid'[k] = vid[k]
      BY <2>1
    <2>5. \A j \in VenueIds : Stored(j) => rows'[j] = rows[j] /\ rows'[j] # None
      BY <2>1
    <2>6. QED
      BY <2>1, <2>2, <2>3, <2>4, <2>5
  <1>3. ASSUME NEW h \in Handlers, Update(h) PROVE TypeOK'
    BY <1>3, RequestType DEF Update, Work
  <1>4. ASSUME NEW h \in Handlers, UpdateSchedule(h) PROVE TypeOK'
    BY <1>4, ScheduleType DEF UpdateSchedule, Work
  <1>5. ASSUME NEW h \in Handlers, SaveVenue(h) PROVE TypeOK'
    BY <1>5, NoneAssumption DEF SaveVenue
  <1>6. ASSUME NEW h \in Handlers, Reread(h) \/ Delete(h) \/ DeleteRow(h) PROVE TypeOK'
    BY <1>6 DEF Reread, Delete, DeleteRow
  <1>7. ASSUME NEW h \in Handlers, NotFound(h) \/ Reject(h) \/ CallFails(h) \/ Respond(h)
        PROVE  TypeOK'
    BY <1>7 DEF NotFound, Reject, CallFails, Respond, Work
  <1>8. CASE Restart \/ UNCHANGED vars
    BY <1>8 DEF Restart, Nobody, vars
  <1>9. QED
    BY <1>1, <1>2, <1>3, <1>4, <1>5, <1>6, <1>7, <1>8 DEF Next

\* A handler that is to write has the venue to write, and a venue that was
\* read stays in the table, deleted or not.
THEOREM VenueTypeCorrect == Spec => []TypeOK
  BY TypeInit, TypeStep, PTL DEF Spec

-------------------------------------------------------------------------------
\* Hours

InOrder(w) ==
    \A d \in Weekdays :
        \/ w[d].opens = None /\ w[d].closes = None
        \/ /\ w[d].enabled /\ w[d].opens # None /\ w[d].closes # None
           /\ w[d].opens < w[d].closes

\* What the handlers hold is in order too, whoever writes next.
HoursInv ==
    /\ \A id \in VenueIds : Stored(id) => InOrder(rows[id].week)
    /\ \A h \in Handlers : pc[h] \in {"insert", "save"} => InOrder(mem[h].week)

LEMMA AcceptedInOrder ==
    ASSUME ~MidnightMayPass, NEW w \in Week, NEW late \in Late, Accepted(w, late)
    PROVE  InOrder(Decoded(w))
  <1>1. late \notin Weekdays
    BY NoneAssumption DEF Late
  <1>2. QED
    BY <1>1 DEF Accepted, ValidWeek, InOrder

LEMMA DefaultsInOrder ==
    ASSUME NEW v \in Row, InOrder(v.week) PROVE InOrder(WithDefaults(v).week)
  <1>1. WithDefaults(v).week = [d \in Weekdays |-> [v.week[d] EXCEPT !.enabled = TRUE]]
    BY DEF WithDefaults, Row
  <1>2. ASSUME NEW d \in Weekdays
        PROVE  /\ WithDefaults(v).week[d].opens = v.week[d].opens
               /\ WithDefaults(v).week[d].closes = v.week[d].closes
               /\ WithDefaults(v).week[d].enabled
    BY <1>1 DEF Row, Week, Day
  <1>3. QED
    BY <1>2 DEF InOrder

LEMMA HoursStep ==
    ASSUME ~MidnightMayPass, TypeOK, HoursInv, [Next]_vars PROVE HoursInv'
  <1> USE DEF Step
  <1>1. ASSUME NEW h \in Handlers, Create(h) PROVE HoursInv'
    <2>1. PICK r \in Requests, late \in Late :
              /\ Accepted(r.week, late) /\ rows' = rows
              /\ mem' = [mem EXCEPT ![h] = [r EXCEPT !.week = Decoded(r.week)]]
      BY <1>1 DEF Create
    <2>2. r \in Row /\ r.week \in Week
      BY InputAssumption, RequestType
    <2>3. InOrder(mem'[h].week)
      BY <2>1, <2>2, AcceptedInOrder DEF TypeOK, Row
    <2>4. \A k \in Handlers : k # h => pc'[k] = pc[k] /\ mem'[k] = mem[k]
      BY <1>1, <2>1 DEF Create, TypeOK
    <2>5. QED
      BY <2>1, <2>3, <2>4 DEF HoursInv, Stored
  <1>2. ASSUME NEW h \in Handlers, Insert(h) PROVE HoursInv'
    <2>1. PICK id \in VenueIds : rows' = [rows EXCEPT ![id] = WithDefaults(mem[h])]
      BY <1>2 DEF Insert
    <2>2. pc[h] = "insert" /\ mem[h] \in Row /\ mem' = mem /\ pc'[h] \in {"created", "internal"}
          /\ \A k \in Handlers : k # h => pc'[k] = pc[k]
      BY <1>2 DEF Insert, TypeOK
    <2>3. InOrder(WithDefaults(mem[h]).week)
      BY <2>2, DefaultsInOrder DEF HoursInv
    <2>4. QED
      BY <2>1, <2>2, <2>3 DEF HoursInv, Stored, TypeOK
  <1>3. ASSUME NEW h \in Handlers, Update(h) PROVE HoursInv'
    <2>1. PICK id \in VenueIds, r \in Requests, late \in Late :
              /\ Accepted(r.week, late) /\ rows' = rows
              /\ mem' = [mem EXCEPT ![h] = [r EXCEPT !.week = Decoded(r.week)]]
      BY <1>3 DEF Update, Work
    <2>2. r \in Row /\ r.week \in Week
      BY InputAssumption, RequestType
    <2>3. InOrder(mem'[h].week)
      BY <2>1, <2>2, AcceptedInOrder DEF TypeOK, Row
    <2>4. \A k \in Handlers : k # h => pc'[k] = pc[k] /\ mem'[k] = mem[k]
      BY <1>3, <2>1 DEF Update, TypeOK
    <2>5. QED
      BY <2>1, <2>3, <2>4 DEF HoursInv, Stored
  <1>4. ASSUME NEW h \in Handlers, UpdateSchedule(h) PROVE HoursInv'
    <2>1. PICK id \in VenueIds, w \in Schedules, late \in Late :
              /\ Live(id) /\ Accepted(w, late) /\ rows' = rows
              /\ mem' = [mem EXCEPT ![h] = [rows[id] EXCEPT !.week = Decoded(w)]]
      BY <1>4 DEF UpdateSchedule, Work
    <2>2. rows[id] \in Row /\ w \in Week
      BY <2>1, InputAssumption DEF TypeOK, Live, Stored
    <2>3. InOrder(mem'[h].week)
      BY <2>1, <2>2, AcceptedInOrder DEF TypeOK, Row
    <2>4. \A k \in Handlers : k # h => pc'[k] = pc[k] /\ mem'[k] = mem[k]
      BY <1>4, <2>1 DEF UpdateSchedule, TypeOK
    <2>5. QED
      BY <2>1, <2>3, <2>4 DEF HoursInv, Stored
  <1>5. ASSUME NEW h \in Handlers, SaveVenue(h) PROVE HoursInv'
    <2>1. /\ pc[h] = "save" /\ mem' = mem /\ pc'[h] \in {"reread", "internal"}
          /\ \A k \in Handlers : k # h => pc'[k] = pc[k]
          /\ rows' = rows \/ rows' = [rows EXCEPT ![vid[h]] = mem[h]]
      BY <1>5 DEF SaveVenue, TypeOK
    <2>2. QED
      BY <2>1 DEF HoursInv, Stored, TypeOK
  <1>6. ASSUME NEW h \in Handlers,
               Reread(h) \/ Delete(h) \/ DeleteRow(h)
               \/ NotFound(h) \/ Reject(h) \/ CallFails(h) \/ Respond(h)
        PROVE  HoursInv'
    <2>1. /\ rows' = rows /\ pc'[h] \notin {"insert", "save"}
          /\ \A k \in Handlers : k # h => pc'[k] = pc[k] /\ mem'[k] = mem[k]
      BY <1>6 DEF Reread, Delete, DeleteRow, NotFound, Reject, CallFails, Respond, Work,
                  TypeOK, Answers
    <2>2. QED
      BY <2>1 DEF HoursInv, Stored
  <1>7. CASE Restart \/ UNCHANGED vars
    BY <1>7 DEF Restart, vars, HoursInv, Stored
  <1>8. QED
    BY <1>1, <1>2, <1>3, <1>4, <1>5, <1>6, <1>7 DEF Next

\* Unless midnight passes while a schedule is parsed, no stored venue has its
\* hours in the wrong order or only one of them, however creations, updates
\* and schedule updates of it interleave.
THEOREM StoredHoursOrdered ==
    ASSUME ~MidnightMayPass PROVE Spec => []HoursOrdered
  <1>1. Init => HoursInv
    BY DEF Init, HoursInv, Stored
  <1>2. HoursInv => HoursOrdered
    BY DEF HoursInv, HoursOrdered, InOrder
  <1>3. TypeOK /\ HoursInv /\ [Next]_vars => HoursInv'
    BY HoursStep
  <1>4. QED
    BY <1>1, <1>2, <1>3, VenueTypeCorrect, PTL DEF Spec

-------------------------------------------------------------------------------
\* Deletion

LEMMA DeletedKept ==
    ASSUME TypeOK, [Next]_vars, NEW id \in deleted
    PROVE  id \in deleted' /\ rows'[id] = rows[id]
  <1>1. id \in VenueIds /\ Stored(id)
    BY DEF TypeOK
  <1>2. ASSUME NEW h \in Handlers, Insert(h) \/ SaveVenue(h) PROVE rows'[id] = rows[id]
    BY <1>1, <1>2 DEF Insert, SaveVenue, Live, TypeOK
  <1>3. ASSUME NEW h \in Handlers, Insert(h) \/ SaveVenue(h) PROVE deleted' = deleted
    BY <1>3 DEF Insert, SaveVenue
  <1>4. ASSUME NEW h \in Handlers, DeleteRow(h) PROVE id \in deleted' /\ rows' = rows
    BY <1>4 DEF DeleteRow
  <1>5. ASSUME NEW h \in Handlers,
               Create(h) \/ Update(h) \/ UpdateSchedule(h) \/ Reread(h) \/ Delete(h)
               \/ NotFound(h) \/ Reject(h) \/ CallFails(h) \/ Respond(h)
        PROVE  UNCHANGED <<rows, deleted>>
    BY <1>5 DEF Create, Update, UpdateSchedule, Reread, Delete, NotFound, Reject, CallFails,
                Respond
  <1>6. CASE Restart \/ UNCHANGED vars
    BY <1>6 DEF Restart, vars
  <1>7. QED
    BY <1>2, <1>3, <1>4, <1>5, <1>6 DEF Next

\* A deleted venue is never brought back or written to, however many updates
\* read it before it was deleted.
THEOREM DeletedVenuesStay == Spec => DeletedStays
  <1>1. TypeOK /\ [Next]_vars =>
            [\A id \in deleted : id \in deleted' /\ rows'[id] = rows[id]]_vars
    BY DeletedKept
  <1>2. QED
    BY <1>1, VenueTypeCorrect, PTL DEF Spec, DeletedStays

LEMMA DeletedByTheTold ==
    ASSUME TypeOK, [Next]_vars, NEW h \in Handlers, pc[h] = "delete", pc'[h] = "deleted"
    PROVE  vid[h] \in deleted' \ deleted
  <1> USE DEF Step, TypeOK
  <1>1. ASSUME NEW k \in Handlers, DeleteRow(k) PROVE vid[h] \in deleted' \ deleted
    <2>1. k = h
      BY <1>1 DEF DeleteRow
    <2>2. QED
      BY <1>1, <2>1 DEF DeleteRow, Live
  <1>2. ASSUME NEW k \in Handlers,
               Create(k) \/ Insert(k) \/ Update(k) \/ UpdateSchedule(k)
               \/ SaveVenue(k) \/ Reread(k) \/ Delete(k)
               \/ NotFound(k) \/ Reject(k) \/ CallFails(k) \/ Respond(k)
        PROVE  FALSE
    BY <1>2 DEF Create, Insert, Update, UpdateSchedule, SaveVenue, Reread, Delete, NotFound,
                Reject, CallFails, Respond
  <1>3. ~Restart /\ ~UNCHANGED vars
    BY DEF Restart, vars
  <1>4. QED
    BY <1>1, <1>2, <1>3 DEF Next

\* Of any number of deletions of a venue, the one that is told it succeeded is
\* the one that deleted it.
THEOREM OneDeletionSucceeds == Spec => OneDeleter
  <1>1. TypeOK /\ [Next]_vars =>
            [\A h \in Handlers :
                pc[h] = "delete" /\ pc'[h] = "deleted" => vid[h] \in deleted' \ deleted]_vars
    BY DeletedByTheTold
  <1>2. QED
    BY <1>1, VenueTypeCorrect, PTL DEF Spec, OneDeleter
===============================================================================
