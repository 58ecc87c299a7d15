CONSTANTS
    r1 = r1  r2 = r2  r3 = r3  pr1 = pr1  pr2 = pr2  f1 = f1  f2 = f2
    NoOne = NoOne
    Request = {r1, r2, r3}
    Proc = {pr1, pr2}
    Fingerprint = {f1, f2}
    InitSees = {"pg"}
    MaxFault = 0
SPECIFICATION Spec
INVARIANTS AtMostOnce
SYMMETRY Symmetry
CHECK_DEADLOCK FALSE
