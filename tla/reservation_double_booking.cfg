\* Two clients create at the same time.
SPECIFICATION Spec
CONSTANTS
    None = None
    v1 = v1
    v2 = v2
    Handlers = {h1, h2}
    BookingIds = {b1, b2}
    Venues = {v1}
    Requests <- ConcurrentRequests
    Patches = {}
    VenueReplies <- ConcurrentReplies
    TableExists = TRUE
    MaxTime = 3
    Zones = {0}
    Clock = {}
    HourLength = 2
    DayLength = 4
    MaxEvents = 1
INVARIANTS
    NoDoubleBooking
