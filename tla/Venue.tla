--------------------------------- MODULE Venue ---------------------------------
(***************************************************************************)
(* venue-service: HTTP handlers over one Postgres table with soft deletes. *)
(* An update, a change of the schedule and a deletion read the venue first *)
(* and then write; each read and each write is a statement of its own, and *)
(* nothing is locked between them.  A row that is deleted keeps its place  *)
(* and its id; GORM adds "deleted_at IS NULL" to every statement.          *)
(***************************************************************************)
EXTENDS Integers

CONSTANTS
    Handlers,         \* the requests served at the same time
    VenueIds,         \* the primary keys the table may hand out
    Weekdays,
    Profiles,         \* type, owner and district of a venue
    Prices,
    Hours,            \* the times of day a schedule may name
    Requests,         \* the venues clients send, as decoded from their JSON
    Schedules,        \* the weeks clients send
    MidnightMayPass,  \* may midnight pass while a schedule is being parsed
    None

Day == [enabled : BOOLEAN, opens : Hours \union {None}, closes : Hours \union {None}]

Week == [Weekdays -> Day]

Row == [profile : Profiles, active : BOOLEAN, price : Prices, week : Week]

ASSUME InputAssumption ==
    /\ Hours \subseteq Nat /\ MidnightMayPass \in BOOLEAN
    /\ Requests \subseteq Row /\ Schedules \subseteq Week

ASSUME NoneAssumption == None \notin Row /\ None \notin VenueIds \union Hours \union Weekdays

VARIABLES
    rows,      \* table venues, deleted rows included
    deleted,   \* the ids whose deleted_at is set
    pc,        \* where each handler is
    vid,       \* the venue it works on
    mem        \* the models.Venue it holds in memory

vars == <<rows, deleted, pc, vid, mem>>

Answers == {"created", "updated", "deleted", "nocontent", "notfound", "refused", "internal"}

PCs == {"idle", "insert", "save", "reread", "delete"} \union Answers

Step(h, from, to) == pc[h] = from /\ pc' = [pc EXCEPT ![h] = to]

Stored(id) == rows[id] # None

\* Mutation of Live: the queries are Unscoped.
LiveUnscoped(id) == Stored(id)

Live(id) == Stored(id) /\ id \notin deleted

(***************************************************************************)
(* Schedules                                                               *)
(***************************************************************************)
\* The decoder wants both times of a day that is on, and drops those of a day
\* that is off.
Decodable(w) ==
    \A d \in Weekdays : w[d].enabled => w[d].opens # None /\ w[d].closes # None

DayOff == [enabled |-> FALSE, opens |-> None, closes |-> None]

Decoded(w) == [d \in Weekdays |-> IF w[d].enabled THEN w[d] ELSE DayOff]

\* A time of day is parsed onto the date of that moment: when midnight passes
\* between the two times of a day, the second is later whatever it says.
Late == {None} \union (IF MidnightMayPass THEN Weekdays ELSE {})

\* Mutation of ValidWeek: any two times will do.
ValidWeekUnordered(w, late) == Decodable(w)

\* The hooks BeforeCreate and BeforeUpdate.
ValidWeek(w, late) ==
    \A d \in Weekdays :
        IF w[d].enabled
        THEN /\ w[d].opens # None /\ w[d].closes # None
             /\ w[d].opens < w[d].closes \/ d = late
        ELSE w[d].opens = None /\ w[d].closes = None

\* What a client is told of a day: the hours only of a day that is on and has both.
Shown(day) ==
    IF day.enabled /\ day.opens # None /\ day.closes # None THEN day
    ELSE [day EXCEPT !.opens = None, !.closes = None]

(***************************************************************************)
(* Create                                                                  *)
(***************************************************************************)
Accepted(w, late) == Decodable(w) /\ ValidWeek(Decoded(w), late)

Create(h) ==
    \E r \in Requests, late \in Late :
        /\ Accepted(r.week, late)
        /\ Step(h, "idle", "insert")
        /\ mem' = [mem EXCEPT ![h] = [r EXCEPT !.week = Decoded(@)]]
        /\ UNCHANGED <<rows, deleted, vid>>

\* GORM takes a false for a value that was not given where the column has a
\* default, and fills in the default: true for is_active and for every day.
WithDefaults(v) ==
    [v EXCEPT !.active = TRUE,
              !.week = [d \in Weekdays |-> [@[d] EXCEPT !.enabled = TRUE]]]

\* The id comes from the sequence or from the request itself.  A commit may
\* succeed and its answer be lost.
Insert(h) ==
    \E id \in VenueIds, answer \in {"created", "internal"} :
        /\ ~Stored(id)
        /\ Step(h, "insert", answer)
        /\ rows' = [rows EXCEPT ![id] = WithDefaults(mem[h])]
        /\ vid' = [vid EXCEPT ![h] = id]
        /\ UNCHANGED <<deleted, mem>>

(***************************************************************************)
(* Update and UpdateSchedule                                               *)
(***************************************************************************)
Work(h, id, v) == vid' = [vid EXCEPT ![h] = id] /\ mem' = [mem EXCEPT ![h] = v]

\* Every field is replaced by the request's.
Update(h) ==
    \E id \in VenueIds, r \in Requests, late \in Late :
        /\ Live(id) /\ Accepted(r.week, late)
        /\ Step(h, "idle", "save")
        /\ Work(h, id, [r EXCEPT !.week = Decoded(@)])
        /\ UNCHANGED <<rows, deleted>>

\* Only the week is replaced, in the row as it was read.
UpdateSchedule(h) ==
    \E id \in VenueIds, w \in Schedules, late \in Late :
        /\ Live(id) /\ Accepted(w, late)
        /\ Step(h, "idle", "save")
        /\ Work(h, id, [rows[id] EXCEPT !.week = Decoded(w)])
        /\ UNCHANGED <<rows, deleted>>

\* The UPDATE writes every column, and succeeds without a row to write to.
SaveVenue(h) ==
    /\ \E answer \in {"reread", "internal"} : Step(h, "save", answer)
    /\ rows' = IF Live(vid[h]) THEN [rows EXCEPT ![vid[h]] = mem[h]] ELSE rows
    /\ UNCHANGED <<deleted, vid, mem>>

\* The answer is what a second read finds; a failure of it is not reported.
Reread(h) ==
    /\ \E answer \in {"updated", "nocontent"} :
           /\ Step(h, "reread", answer)
           /\ answer = "updated" => Live(vid[h])
    /\ UNCHANGED <<rows, deleted, vid, mem>>

(***************************************************************************)
(* Delete                                                                  *)
(***************************************************************************)
Delete(h) ==
    \E id \in VenueIds :
        /\ Live(id)
        /\ Step(h, "idle", "delete")
        /\ vid' = [vid EXCEPT ![h] = id]
        /\ UNCHANGED <<rows, deleted, mem>>

\* Mutation of DeleteRow: the number of rows affected is not looked at.
DeleteRowUncounted(h) ==
    /\ \E answer \in {"deleted", "internal"} : Step(h, "delete", answer)
    /\ deleted' = deleted \union {vid[h]}
    /\ UNCHANGED <<rows, vid, mem>>

\* Mutation of DeleteRow: the row is removed.
DeleteRowHard(h) ==
    /\ \E answer \in {"deleted", "internal"} : Step(h, "delete", answer)
    /\ Live(vid[h])
    /\ rows' = [rows EXCEPT ![vid[h]] = None]
    /\ UNCHANGED <<deleted, vid, mem>>

\* The row may have been deleted since it was read: that is an error, and not
\* the one of a venue that was never there.
DeleteRow(h) ==
    /\ \E answer \in {"deleted", "internal"} :
           /\ Step(h, "delete", answer)
           /\ answer = "deleted" => Live(vid[h])
    /\ deleted' = deleted \union {vid[h]}
    /\ UNCHANGED <<rows, vid, mem>>

(***************************************************************************)
(* Everything else                                                         *)
(***************************************************************************)
NotFound(h) ==
    /\ \E id \in VenueIds : ~Live(id)
    /\ Step(h, "idle", "notfound")
    /\ UNCHANGED <<rows, deleted, vid, mem>>

\* A week that does not decode is refused, one the hooks reject is answered
\* like a failure of the database.
Reject(h) ==
    /\ \E w \in {r.week : r \in Requests} \union Schedules :
           \/ ~Decodable(w) /\ Step(h, "idle", "refused")
           \/ Decodable(w) /\ ~ValidWeek(Decoded(w), None) /\ Step(h, "idle", "internal")
    /\ UNCHANGED <<rows, deleted, vid, mem>>

\* A read fails, or a write that changes nothing.
CallFails(h) ==
    /\ pc[h] \in {"idle", "insert", "save", "delete"}
    /\ pc' = [pc EXCEPT ![h] = "internal"]
    /\ UNCHANGED <<rows, deleted, vid, mem>>

Respond(h) ==
    /\ pc[h] \in Answers
    /\ pc' = [pc EXCEPT ![h] = "idle"]
    /\ Work(h, None, None)
    /\ UNCHANGED <<rows, deleted>>

Nobody == [h \in Handlers |-> None]

Restart ==
    /\ pc' = [h \in Handlers |-> "idle"]
    /\ vid' = Nobody /\ mem' = Nobody
    /\ UNCHANGED <<rows, deleted>>

Init ==
    /\ rows = [id \in VenueIds |-> None]
    /\ deleted = {}
    /\ pc = [h \in Handlers |-> "idle"]
    /\ vid = Nobody /\ mem = Nobody

Next ==
    \/ \E h \in Handlers :
           \/ Create(h) \/ Insert(h)
           \/ Update(h) \/ UpdateSchedule(h) \/ SaveVenue(h) \/ Reread(h)
           \/ Delete(h) \/ DeleteRow(h)
           \/ NotFound(h) \/ Reject(h) \/ CallFails(h) \/ Respond(h)
    \/ Restart

Spec == Init /\ [][Next]_vars

(***************************************************************************)
(* Properties                                                              *)
(***************************************************************************)
\* Every variable holds a value the code can give it; a handler that is to
\* write has the venue to write, and the row it read is still in the table.
TypeOK ==
    /\ rows \in [VenueIds -> Row \union {None}]
    /\ deleted \subseteq {id \in VenueIds : Stored(id)}
    /\ pc \in [Handlers -> PCs]
    /\ vid \in [Handlers -> VenueIds \union {None}]
    /\ mem \in [Handlers -> Row \union {None}]
    /\ \A h \in Handlers :
           /\ pc[h] \in {"insert", "save"} => mem[h] \in Row
           /\ pc[h] \in {"save", "reread", "delete"} =>
                  vid[h] \in VenueIds /\ Stored(vid[h])

\* The hours of a stored venue are in order, and either both there or both
\* missing, whichever of creation, update and schedule update wrote them last.
HoursOrdered ==
    \A id \in VenueIds, d \in Weekdays :
        Stored(id) =>
            LET day == rows[id].week[d] IN
            \/ day.opens = None /\ day.closes = None
            \/ day.enabled /\ day.opens # None /\ day.closes # None /\ day.opens < day.closes

\* A deleted venue stays deleted and as it was, although writes that read it
\* before are still on their way.
DeletedStays ==
    [][\A id \in deleted : id \in deleted' /\ rows'[id] = rows[id]]_vars

\* A client is told that its request deleted a venue only if it did: of two
\* deletions of a venue one is told so.
OneDeleter ==
    [][\A h \in Handlers :
           pc[h] = "delete" /\ pc'[h] = "deleted" => vid[h] \in deleted' \ deleted]_vars

\* A day a client is told is on has its hours: what the comments of
\* models/venue.go:34-38 say of a schedule.
OnHasHours ==
    \A id \in VenueIds, d \in Weekdays :
        Live(id) =>
            LET day == Shown(rows[id].week[d]) IN
            day.enabled <=> day.opens # None /\ day.closes # None
===============================================================================
