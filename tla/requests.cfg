CONSTANTS
    r1 = r1  r2 = r2  r3 = r3  pr1 = pr1  pr2 = pr2  f1 = f1  f2 = f2
    NoOne = NoOne
    Request = {r1, r2, r3}
    Proc = {pr1, pr2}
    Fingerprint = {f1, f2}
    InitSees = {"redis", "pg"}
    MaxFault = 2
    Tab = {r1, r2}
    Customer = {f1, f2}
    Teller = {r1, r2}
    NoticeId = {f1, f2}
    Dashboard = {d1}
    Worker = {pr1, pr2}
    Pusher = {r1, r2}
    MaxWaiting = 2
    PageSize = 1
SPECIFICATION RequestsSpec
INVARIANTS RequestsTypeOK AtMostOnce RepeatNeverRuns ReplayFaithful LockKept DraftsKept NewsKept
SYMMETRY Symmetry
CHECK_DEADLOCK FALSE
