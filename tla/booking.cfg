\* One reservation request at a time, both consumers, one refund request.
SPECIFICATION FairBookingSpec
CONSTANTS
    None = None
    v1 = v1
    Handlers = {h1}
    BookingIds = {b1}
    Venues = {v1}
    Requests <- SomeRequests
    Patches = {}
    VenueReplies <- SomeReplies
    TableExists = TRUE
    MaxTime = 3
    Zones = {0}
    Clock = {}
    HourLength = 2
    DayLength = 4
    MaxEvents = 2
    RefundHandlers = {r1}
    Prices = {0, 1}
    Amounts = {1}
    BrokersConfigured = TRUE
    MaxPayments = 1
    MaxFaults = 1
INVARIANTS
    PendingIsAnnounced
    RefundMeansCancelled
PROPERTIES
    PaymentImplemented
    EventsAreRead
    RefundsAreAnswered
    AnnouncedIsBilled
    OldestPaidIsReturned
