\* One request at a time, every operation, a clock that passes, restarts.
SPECIFICATION Spec
CONSTANTS
    None = None
    v1 = v1
    v2 = v2
    Handlers = {h1}
    BookingIds = {b1, b2}
    Venues = {v1, v2}
    Requests <- SerialRequests
    Patches <- SerialPatches
    VenueReplies <- SerialReplies
    TableExists = TRUE
    MaxTime = 6
    Zones <- SerialZones
    Clock = {1}
    HourLength = 2
    DayLength = 4
    MaxEvents = 1
SYMMETRY Symmetry
INVARIANTS
    NoDoubleBooking
    WithinADaysHours
    RefusedForOverlap
    CancelEventMeansCancelled
PROPERTIES
    FinalRowsStay
    CalendarRefined
