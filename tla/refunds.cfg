CONSTANTS
    b1 = b1  b2 = b2  o1 = o1  o2 = o2  p1 = p1  p2 = p2  w1 = w1  w2 = w2
    NoId = NoId
    Booking = {b1}
    Order = {o1, o2}
    Payment = {p1, p2}
    Worker = {w1, w2}
    Total = 2
    MaxTx = 3
    MaxCrash = 1
    Subscribed = {"payment.captured", "refund"}
    UnkeyedKinds = {}
    VerifyAt = {"captured"}
    Outage = FALSE
    ThreadEnds = {"sent"}
SPECIFICATION Spec
INVARIANTS RefundsReal RefundFits RowInv ConfirmedBacked CaptureOnLedger
SYMMETRY Symmetry
CHECK_DEADLOCK FALSE
