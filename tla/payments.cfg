CONSTANTS
    b1 = b1  b2 = b2  o1 = o1  o2 = o2  p1 = p1  p2 = p2  w1 = w1  w2 = w2
    NoId = NoId
    Booking = {b1, b2}
    Order = {o1, o2}
    Payment = {p1, p2}
    Worker = {w1, w2}
    Total = 1
    MaxTx = 3
    MaxCrash = 1
    Subscribed = {"payment.captured", "order.paid", "VERIFY_ENDPOINT", "payment.failed"}
    UnkeyedKinds = {}
    VerifyAt = {"captured"}
    Outage = TRUE
    ThreadEnds = {"sent"}
SPECIFICATION PaySpec
INVARIANTS TypeOK OneSettlement OneInvoice ConfirmedBacked NoCrossBooking
PROPERTIES SettledOnlyRefunded KeepsPromise
SYMMETRY Symmetry
CHECK_DEADLOCK FALSE
