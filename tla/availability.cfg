\* One request after another, up to three bookings of twelve shapes each.
SPECIFICATION Spec
CONSTANTS
    None = None
    BookingIds = {k1, k2, k3}
    Bookings <- SomeBookings
    VenueReplies <- SomeReplies
    MaxTime = 16
    Days = {1}
    HourLength = 2
    DayLength = 8
SYMMETRY Symmetry
INVARIANTS
    SweepInHours
    SlotsAreTheGaps
    AdvertisedIsFree
