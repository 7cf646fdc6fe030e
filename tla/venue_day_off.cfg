\* One request after another.
SPECIFICATION Spec
CONSTANTS
    None = None
    mon = mon
    tue = tue
    p1 = p1
    p2 = p2
    Handlers = {h1}
    VenueIds = {v1, v2}
    Weekdays = {mon, tue}
    Profiles = {p1, p2}
    Prices = {1, 2}
    Hours = {0, 1, 2}
    Requests <- SomeRequests
    Schedules <- SomeSchedules
    MidnightMayPass = FALSE
INVARIANTS
    OnHasHours
