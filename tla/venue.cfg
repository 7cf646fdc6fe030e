\* Two handlers in any interleaving, every operation, restarts.
SPECIFICATION Spec
CONSTANTS
    None = None
    mon = mon
    tue = tue
    p1 = p1
    p2 = p2
    Handlers = {h1, h2}
    VenueIds = {v1, v2}
    Weekdays = {mon, tue}
    Profiles = {p1, p2}
    Prices = {1, 2}
    Hours = {0, 1, 2}
    Requests <- SomeRequests
    Schedules <- SomeSchedules
    MidnightMayPass = FALSE
SYMMETRY Symmetry
INVARIANTS
    TypeOK
    HoursOrdered
PROPERTIES
    DeletedStays
    OneDeleter
