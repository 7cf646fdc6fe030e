\* A booking paid for over HTTP, and cancelled; nothing fails.
SPECIFICATION FairSpec
CONSTANTS
    None = None
    b1 = b1
    b2 = b2
    Handlers = {}
    Bookings = {b1}
    Prices = {0, 1}
    Amounts = {1}
    BrokersConfigured = TRUE
    MaxPayments = 2
    MaxEvents = 1
    MaxFaults = 0
PROPERTIES
    CancelledIsRefunded
\* With no requests and no more events the service idles.
CHECK_DEADLOCK FALSE
