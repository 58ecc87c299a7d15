CONSTANTS
    a1 = a1  a2 = a2  f1 = f1  f2 = f2  f3 = f3
    NoAirport = NoAirport  NoFlight = NoFlight  Unverified = Unverified
    Airport = {a1, a2}
    Flight = {f1, f2, f3}
    International = {f1}
    Hub = {a2}
    HubFlight = {f3}
    DomesticOnly = {a2}
    MultiTerminal = {a1}
    MaxBooking = 2
    MaxLink = 2
    MaxTx = 2
    LastDay = 1
    MaxAsking = 1
    AskedAirport = {}
    AskedSector = {"AB"}
    Checkout = {t1, t2}
    Callback = {h1}
    MaxSession = 2
    Row = {r1, r2}
    FirstRow = r1
    Admin = {t1, t2}
    MaxEdit = 2
SPECIFICATION ChatSpec
INVARIANTS ChatTypeOK BookingsInHand
           GatewayMoney ShopKept
PROPERTIES KnownFlightServed SummaryHolds PaidConfirmed KeepsReservations
CHECK_DEADLOCK FALSE
