CONSTANTS
    b1 = b1  b2 = b2  o1 = o1  o2 = o2  p1 = p1  p2 = p2  w1 = w1  w2 = w2
    NoId = NoId
    Booking = {b1}
    Order = {o1}
    Payment = {p1, p2}
    Worker = {w1, w2}
    Total = 1
    MaxTx = 2
    MaxCrash = 1
    Subscribed = {"payment.captured", "VERIFY_ENDPOINT", "payment.authorized", "payment.failed"}
    UnkeyedKinds = {}
    VerifyAt = {"captured"}
    Outage = TRUE
    ThreadEnds = {"sent", "unsent", "unstored"}
SPECIFICATION FairPaySpec
PROPERTIES EveryEventAcked CaptureConfirms FulfilledUnlessCrash
CHECK_DEADLOCK FALSE
