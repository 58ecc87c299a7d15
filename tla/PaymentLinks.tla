---------------------------- MODULE PaymentLinks ----------------------------
(***************************************************************************)
(* Razorpay payment links of WhatsApp bookings: the bookings, the ledger   *)
(* rows that name a link, and the links at the gateway.  An operation takes *)
(* the desk, a record of the three, and returns the desks it may leave      *)
(* behind: what the gateway answers is chosen, and so is whether the notice *)
(* window of a flight has closed by now.                                   *)
(***************************************************************************)
EXTENDS Naturals, Sequences, FiniteSets, PaymentStatus

CONSTANTS
    MaxLink,    \* bound: links at the gateway
    MaxTx       \* bound: ledger rows

ASSUME LinkBoundAssumption == MaxLink \in Nat \ {0} /\ MaxTx \in Nat \ {0}

VARIABLES
    book,   \* requests in order of creation; a charter request is no Booking
    tx,     \* payment_transactions in order of created_at
    link    \* the gateway's links in order of creation

deskVars == <<book, tx, link>>
desk == [book |-> book, tx |-> tx, link |-> link]

\* later is metadata_json.flight_later, priced is total_amount > 0.
BookingRow == [kind : {"booking", "charter"}, status : BookingStatus,
               priced : BOOLEAN, later : BOOLEAN]
LinkTx == [of : Nat, link : Nat, status : TxStatus, dup : BOOLEAN]

\* due: expire_by has passed; told: the event of its end was handled.
GatewayLink == [of : Nat, st : {"created", "cancelled", "paid"}, due : BOOLEAN, told : BOOLEAN]
FreshLink(b) == [of |-> b, st |-> "created", due |-> FALSE, told |-> FALSE]

Largest(S) == CHOOSE i \in S : \A j \in S : j <= i
IsBooking(d, b) == b \in DOMAIN d.book /\ d.book[b].kind = "booking"
BookingIs(d, b, status) == IsBooking(d, b) /\ d.book[b].status = status

\* Live: Razorpay would still take money for it.
LiveLinks(d, b) ==
    {l \in DOMAIN d.link : d.link[l].of = b /\ d.link[l].st = "created" /\ ~d.link[l].due}

TxsOf(d, b) == {t \in DOMAIN d.tx : d.tx[t].of = b /\ ~d.tx[t].dup}
OpenTxs(d, b) == {t \in TxsOf(d, b) : d.tx[t].status \in Open}

-----------------------------------------------------------------------------
(* whatsapp_links.py                                                       *)

\* mark_payment_link_terminal.
MarkTerminal(d, t, status) ==
    IF d.tx[t].status # "SUCCESSFUL" /\ CanTransition(d.tx[t].status, status)
    THEN [d EXCEPT !.tx[t].status = status]
    ELSE d

\* The newest row of a booking, closed if it is still open.
CloseLatest(d, b) ==
    IF OpenTxs(d, b) # {} /\ Largest(TxsOf(d, b)) \in OpenTxs(d, b)
    THEN MarkTerminal(d, Largest(TxsOf(d, b)), "EXPIRED")
    ELSE d

\* persist_whatsapp_payment_link_tx: an open row of the link is kept, else the
\* latest row is closed and a new one inserted.
Persist(d, b, l) ==
    LET named == {t \in TxsOf(d, b) : d.tx[t].link = l} IN
    IF named # {} /\ d.tx[Largest(named)].status \in Open THEN d
    ELSE [CloseLatest(d, b) EXCEPT !.tx =
              Append(@, [of |-> b, link |-> l, status |-> "PENDING", dup |-> FALSE])]

\* find_reusable_whatsapp_payment_link: open rows past their expire_by are
\* closed on the way to the newest one that can be sent again.
Usable(d, b) == {t \in OpenTxs(d, b) : ~d.link[d.tx[t].link].due}
CloseDue(d, b) ==
    [d EXCEPT !.tx = [t \in DOMAIN @ |->
        IF t \in OpenTxs(d, b) \ Usable(d, b) /\ \A u \in Usable(d, b) : u < t
        THEN MarkTerminal(d, t, "EXPIRED").tx[t] ELSE @[t]]]

\* What an operation leaves behind: the desk, the link to send (0: none) and
\* whether the cutoff refused it.
Result(d, l) == [desk |-> d, sent |-> l, cutoff |-> FALSE]
NoLink(d) == Result(d, 0)
Refused(d) == [desk |-> d, sent |-> 0, cutoff |-> TRUE]

\* recover_gateway_link_by_reference: the gateway lists the links of the
\* booking, or the call fails.
Recover(d, b, otherwise) ==
    {otherwise} \cup {Result(Persist(d, b, l), l) :
        l \in {k \in LiveLinks(d, b) : \A j \in LiveLinks(d, b) : j <= k}}

\* razorpay_provider.create_payment_link answers, or times out, or fails: after
\* a timeout the link may exist.  A reference that has a live link is refused.
CreateLink(d, b) ==
    LET l == Len(d.link) + 1
        made == [d EXCEPT !.link = Append(@, FreshLink(b))] IN
    IF LiveLinks(d, b) # {} THEN Recover(d, b, NoLink(d))
    ELSE {NoLink(d)} \cup
         (IF l <= MaxLink THEN {Result(Persist(made, b, l), l)} \cup Recover(made, b, NoLink(made))
                          ELSE {})

\* initiate_whatsapp_payment_link: reuse, else recover, else create.
Initiate(d, b) ==
    LET c == CloseDue(d, b) IN
    IF ~BookingIs(d, b, "PENDING") THEN {NoLink(d)}
    ELSE (IF d.book[b].later THEN {} ELSE {Refused(d)}) \cup
         (IF Usable(d, b) # {} THEN {Result(c, d.tx[Largest(Usable(d, b))].link)}
          ELSE (Recover(c, b, NoLink(c)) \ {NoLink(c)}) \cup CreateLink(c, b))

\* replace_whatsapp_payment_link.
Replace(d, b) ==
    IF ~BookingIs(d, b, "PENDING") THEN {NoLink(d)} ELSE Initiate(CloseLatest(d, b), b)

-----------------------------------------------------------------------------
(* handle_verified_payment for the events of link l.                       *)

\* The row an event of l resolves to: the newest that names l, else the newest
\* open row of the booking.
RowOf(d, l) ==
    LET b == d.link[l].of
        named == {t \in DOMAIN d.tx : d.tx[t].link = l} IN
    IF named # {} THEN {Largest(named)}
    ELSE IF OpenTxs(d, b) # {} THEN {Largest(OpenTxs(d, b))}
    ELSE {}

Succeeded(b, l, dup) == [of |-> b, link |-> l, status |-> "SUCCESSFUL", dup |-> dup]

\* Faulty: a row that was given up does not settle any more.
SettleOpenOnly(d, l) ==
    LET b == d.link[l].of IN
    IF BookingIs(d, b, "CONFIRMED") THEN d
    ELSE IF RowOf(d, l) = {}
    THEN [d EXCEPT !.book[b].status = "CONFIRMED", !.tx = Append(@, Succeeded(b, l, FALSE))]
    ELSE LET t == CHOOSE u \in RowOf(d, l) : TRUE IN
         IF CanTransition(d.tx[t].status, "SUCCESSFUL")
         THEN [d EXCEPT !.book[b].status = "CONFIRMED", !.tx[t].status = "SUCCESSFUL"]
         ELSE d

\* A paid link confirms its booking whatever happened to the booking and to the
\* row meanwhile; a second payment of a confirmed booking is set aside.
Settle(d, l) ==
    LET b == d.link[l].of IN
    IF BookingIs(d, b, "CONFIRMED")
    THEN IF \E t \in DOMAIN d.tx : d.tx[t].link = l /\ d.tx[t].status = "SUCCESSFUL"
         THEN d ELSE [d EXCEPT !.tx = Append(@, Succeeded(b, l, TRUE))]
    ELSE IF RowOf(d, l) = {}
    THEN [d EXCEPT !.book[b].status = "CONFIRMED", !.tx = Append(@, Succeeded(b, l, FALSE))]
    ELSE LET t == CHOOSE u \in RowOf(d, l) : TRUE IN
         [d EXCEPT !.book[b].status = "CONFIRMED", !.tx[t].status = "SUCCESSFUL"]

\* handle_payment_link_expired_cancelled.
End(d, l, status) ==
    LET rows == RowOf(d, l) IN
    IF rows = {} THEN d ELSE MarkTerminal(d, CHOOSE u \in rows : TRUE, status)

\* The status an event or a fetch of an unpaid, ended link stands for.
EndStatus(d, l) == IF d.link[l].st = "cancelled" THEN "CANCELLED" ELSE "EXPIRED"
Ended(d, l) ==
    d.link[l].st = "cancelled" \/ (d.link[l].st = "created" /\ d.link[l].due)

\* reconcile_whatsapp_payment_link: the status of the newest row's link is
\* fetched, or unavailable.
Reconcile(d, b) ==
    IF ~IsBooking(d, b) \/ BookingIs(d, b, "CONFIRMED") \/ TxsOf(d, b) = {} THEN {d}
    ELSE LET t == Largest(TxsOf(d, b))
             l == d.tx[t].link IN
         {d} \cup (IF d.link[l].st = "paid" THEN {Settle(d, l)}
                   ELSE IF Ended(d, l) THEN {MarkTerminal(d, t, EndStatus(d, l))} ELSE {})
=============================================================================
