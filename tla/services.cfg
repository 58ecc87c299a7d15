CONSTANTS
    Applicant <- TwoApplicants
    MaxDay = 2
    Nobody = Nobody
    Message = {t1, t2}
    Call = {s1, s2, s3}
    Visit = {s1, s2, s3}
    Device = {d1, d2}
    MaxToken = 3
    Sender = {s1, s2, s3}
    MaxAttempts = 2
    Dispatcher = {t1, t2}
    Server = {w1, w2}
    Recipient = {r1, r2}
    Request = {t1, t2}
    ForceTarget = {"BOOKED"}
    Writer = {t1, t2}
    DeskTarget = {"PENDING", "CONFIRMED", "COMPLETED", "CANCELLED"}
    MaxVersion = 4
    Clerk = {t1, t2}
    MaxAssignment = 3
    MaxRevision = 3
    MaxHour = 3
    Agent = {t1, t2}
    MaxFiled = 2
    MaxPassenger = 2
SPECIFICATION ServicesSpec
SYMMETRY Identical
INVARIANTS ServicesTypeOK FormComplete InboundOnce SessionRules
           SentOnce AlertOnce StatusFollows CancelledRefunded DesksKept
PROPERTY HistoryLegal
CHECK_DEADLOCK FALSE
