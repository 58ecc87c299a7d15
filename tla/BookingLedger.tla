--------------------------- MODULE BookingLedger ---------------------------
(***************************************************************************)
(* What the payment core promises about money, whatever the number, order  *)
(* and repetition of the messages that report it: the first payment of a   *)
(* booking settles it, in one step with the booking's confirmation and for *)
(* good; any other payment is set aside, once, as a duplicate.  The one    *)
(* exception is a late order, which the order endpoint stores over a row   *)
(* that was paid meanwhile: the booking stays settled under its name.      *)
(***************************************************************************)
CONSTANTS Booking, Order, Payment

VARIABLES
    settled,    \* the payment that settled each booking: {} or a singleton
    duplicates, \* payments set aside
    confirmed,  \* bookings the customer was promised
    late        \* late orders, as the order endpoint adds them

Init ==
    /\ settled = [b \in Booking |-> {}]
    /\ duplicates = {}
    /\ confirmed = {}

Unknown(n) == n \notin duplicates /\ \A b \in Booking : n \notin settled[b]

Settle(b, n) ==
    /\ Unknown(n)
    /\ settled[b] = {}
    /\ settled' = [settled EXCEPT ![b] = {n}]
    /\ confirmed' = confirmed \cup {b}
    /\ UNCHANGED duplicates

SetAside(b, p) ==
    /\ Unknown(p)
    /\ settled[b] # {}
    /\ duplicates' = duplicates \cup {p}
    /\ UNCHANGED <<settled, confirmed>>

Rename(b, o) ==
    /\ settled[b] # {}
    /\ settled' = [settled EXCEPT ![b] = {o}]
    /\ UNCHANGED <<duplicates, confirmed>>

Next == \E b \in Booking :
    \/ \E n \in Payment \cup late : Settle(b, n)
    \/ \E p \in Payment : SetAside(b, p)
    \/ \E o \in late' \cap Order : Rename(b, o)

Spec == Init /\ [][Next]_<<settled, duplicates, confirmed>>
=============================================================================
