CONSTANTS
    b1 = b1  b2 = b2  o1 = o1  o2 = o2  p1 = p1  p2 = p2  w1 = w1  w2 = w2
    NoId = NoId
    Booking = {b1}
    Order = {o1, o2}
    Payment = {p1, p2}
    Worker = {w1, w2}
    Total = 1
    MaxTx = 3
    MaxCrash = 0
    Subscribed = {"payment.captured", "order.paid"}
    UnkeyedKinds = {}
    VerifyAt = {"captured"}
    Outage = FALSE
    ThreadEnds = {"sent"}
SPECIFICATION FairPaySpec
PROPERTIES EveryEventAcked
CHECK_DEADLOCK FALSE
