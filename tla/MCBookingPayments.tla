------------------------- MODULE MCBookingPayments -------------------------
EXTENDS BookingPayments, TLC
CONSTANTS b1, b2, o1, o2, p1, p2, w1, w2
Symmetry == Permutations(Booking) \cup Permutations(Order)
                \cup Permutations(Payment) \cup Permutations(Worker)
=============================================================================
