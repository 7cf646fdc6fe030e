\* The database as main.go migrates it: no relation "reservations".
SPECIFICATION Spec
CONSTANTS
    None = None
    v1 = v1
    v2 = v2
    Handlers = {h1}
    BookingIds = {b1, b2}
    Venues = {v1}
    Requests <- ConcurrentRequests
    Patches = {}
    VenueReplies <- ConcurrentReplies
    TableExists = FALSE
    MaxTime = 3
    Zones = {0}
    Clock = {}
    HourLength = 2
    DayLength = 4
    MaxEvents = 1
INVARIANTS
    RefusedForOverlap
