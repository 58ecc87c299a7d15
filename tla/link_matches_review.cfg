CONSTANTS
    a1 = a1  a2 = a2  f1 = f1  f2 = f2  f3 = f3
    NoAirport = NoAirport  NoFlight = NoFlight  Unverified = Unverified
    Airport = {a1}
    Flight = {f2}
    International = {}
    Hub = {}
    HubFlight = {}
    DomesticOnly = {}
    MultiTerminal = {}
    MaxBooking = 2
    MaxLink = 2
    MaxTx = 2
    LastDay = 2
    MaxAsking = 1
    AskedAirport = {"B"}
    AskedSector = {"AB"}
    Checkout = {t1, t2}
    Callback = {h1}
    MaxSession = 2
    Row = {r1, r2}
    FirstRow = r1
    Admin = {t1, t2}
    MaxEdit = 2
SPECIFICATION ChatSpec
PROPERTY LinkMatchesReview
CHECK_DEADLOCK FALSE
