\* Two refund requests, both consumers, one failure of anything.
SPECIFICATION Spec
CONSTANTS
    None = None
    b1 = b1
    b2 = b2
    Handlers = {h1, h2}
    Bookings = {b1}
    Prices = {0, 2}
    Amounts = {1, 2}
    BrokersConfigured = TRUE
    MaxPayments = 1
    MaxEvents = 2
    MaxFaults = 1
SYMMETRY Symmetry
INVARIANTS
    TypeOK
    PaymentsSound
    RefundsBalance
    OnePendingPayment
PROPERTIES
    PaymentsOnlyGrow
    LedgerRefined
