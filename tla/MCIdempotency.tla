--------------------------- MODULE MCIdempotency ---------------------------
EXTENDS Idempotency, TLC
CONSTANTS r1, r2, r3, pr1, pr2, f1, f2
Symmetry == Permutations(Request) \cup Permutations(Proc) \cup Permutations(Fingerprint)
=============================================================================
