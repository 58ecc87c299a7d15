-------------------------- MODULE GatewaySessions --------------------------
(***************************************************************************)
(* One booking that can be paid with Razorpay or ICICI.  Checkouts look    *)
(* for an open session, call the gateway and then insert a row; payers     *)
(* return from the ICICI page through callbacks that read the row, ask the *)
(* bank and then write; a sweep expires old rows.  Settlements of the      *)
(* booking are serial (pg_advisory_xact_lock), nothing else is.            *)
(***************************************************************************)
EXTENDS Naturals, Sequences, FiniteSets, PaymentStatus

CONSTANTS
    Checkout,   \* requests for a payment session
    Callback,   \* returns of a payer's browser from the ICICI page
    MaxSession  \* bound: payment sessions of the booking

ASSUME GatewayAssumption == MaxSession \in Nat \ {0}

Gateway == {"RAZORPAY", "ICICI"}

\* A session has its row and at most one PAY-DUP row beside it.
MaxRow == 2 * MaxSession

VARIABLES
    ledger,     \* payment_transactions of the booking, oldest first
    bank,       \* session (the row it began as) -> whether the gateway has its money
    paid,       \* booking.status is CONFIRMED
    checkout,   \* Checkout -> the gateway it waits for
    callback,   \* Callback -> the row it read, and what it holds of it
    sweep,      \* rows the expiry job selected and has not committed
    told,       \* sessions somebody settled after the gateway said it is paid
    slip        \* what happened that the code does not guard against

gatewayVars == <<ledger, bank, paid, checkout, callback, sweep, told, slip>>

\* gateway_payment_id is the session's order until a payment of it settles.
SessionRow(gw, session) ==
    [gateway |-> gw, status |-> "PENDING", session |-> session, gpid |-> "order", dup |-> FALSE]
DuplicateRow(gw, session) ==
    [gateway |-> gw, status |-> "SUCCESSFUL", session |-> session, gpid |-> "payment", dup |-> TRUE]
Away == [row |-> 0, read |-> "-", said |-> "-"]
RowNo == DOMAIN ledger
SessionRows == {i \in RowNo : ~ledger[i].dup}
SetStatus(i, status) == [ledger EXCEPT ![i].status = status]

GatewayInit ==
    /\ ledger = <<>> /\ bank = [i \in 1 .. MaxRow |-> "open"] /\ paid = FALSE
    /\ checkout = [c \in Checkout |-> "-"] /\ callback = [h \in Callback |-> Away]
    /\ sweep = {} /\ told = {} /\ slip = {}

-----------------------------------------------------------------------------
\* Faulty: a session whose payment is being checked does not bind the booking.
FrozenWhilePending == {i \in SessionRows : ledger[i].status \in {"PENDING", "SUCCESSFUL"}}

\* frozen_gateway_for_booking: the rows that bind the booking to a gateway.
Frozen == {i \in SessionRows :
             ledger[i].status \in {"PENDING", "PROCESSING", "SUCCESSFUL", "PARTIALLY_REFUNDED"}}

\* The sessions that can take the payer's money for the booking, or have it.
Live == {i \in SessionRows : ledger[i].status \in Open \cup {"SUCCESSFUL"}}

\* assert_gateway_exclusive looks at the newest of them only.
Exclusive(gw) == \A i \in Frozen : (\A j \in Frozen : j <= i) => ledger[i].gateway = gw

StartCheckout(c, gw) ==
    /\ checkout[c] = "-" /\ checkout' = [checkout EXCEPT ![c] = gw]
    /\ slip' = slip \cup {v \in {"overlap"} : \E d \in Checkout : checkout[d] \notin {"-", gw}}
    /\ UNCHANGED <<ledger, bank, paid, callback, sweep, told>>

\* initiate_payment starts a session beside those that are open.
InitiatePayment(c, gw) == Exclusive(gw) /\ StartCheckout(c, gw)

\* An open session with the gateway is handed out again.
Reusable(gw) == \E i \in RowNo : ledger[i].status = "PENDING" /\ ledger[i].gateway = gw

\* retry_booking_payment: the gateway that binds the booking, else the preferred one.
RetryPayment(c, gw) ==
    /\ ~paid /\ Exclusive(gw) /\ ~Reusable(gw)
    /\ StartCheckout(c, gw)

\* icici_initiate_endpoint does not ask whether the booking is paid.
RetryIcici(c) == Exclusive("ICICI") /\ ~Reusable("ICICI") /\ StartCheckout(c, "ICICI")

\* The gateway answers and the row is inserted without looking again.
OpenSession(c) ==
    /\ checkout[c] # "-" /\ Cardinality(SessionRows) < MaxSession
    /\ checkout' = [checkout EXCEPT ![c] = "-"]
    /\ ledger' = Append(ledger, SessionRow(checkout[c], Len(ledger) + 1))
    /\ UNCHANGED <<bank, paid, callback, sweep, told, slip>>

NoSession(c) ==
    /\ checkout[c] # "-" /\ checkout' = [checkout EXCEPT ![c] = "-"]
    /\ UNCHANGED <<ledger, bank, paid, callback, sweep, told, slip>>

\* The payer pays on the gateway's page, perhaps after the row expired.
Pay(i) ==
    /\ i \in SessionRows /\ bank[i] = "open" /\ bank' = [bank EXCEPT ![i] = "paid"]
    /\ UNCHANGED <<ledger, paid, checkout, callback, sweep, told, slip>>

-----------------------------------------------------------------------------
SuccessfulRows == {i \in SessionRows : ledger[i].status = "SUCCESSFUL"}
SettledAs(session) == {i \in RowNo : ledger[i].session = session /\ ledger[i].gpid = "payment"}

\* Faulty: a second payment is not kept.
DropDuplicate(i) == UNCHANGED ledger

\* A PAY-DUP row, unless the unique index knows the payment already.
FlagDuplicate(i) ==
    IF SettledAs(i) # {} THEN UNCHANGED ledger
    ELSE ledger' = Append(ledger, DuplicateRow(ledger[i].gateway, i))

\* A failed or expired session comes alive beside another gateway's session, or
\* one that is about to be opened.
Revived(i) == {v \in {"revived"} : i \notin Live
                 /\ \/ \E j \in Live : ledger[j].gateway # ledger[i].gateway
                    \/ \E c \in Checkout : checkout[c] \notin {"-", ledger[i].gateway}}

\* handle_verified_payment of session i, on a row last read as `read`.
SettleSession(i, read) ==
    /\ told' = told \cup {i}
    /\ \/ paid /\ i \notin SuccessfulRows /\ FlagDuplicate(i) /\ UNCHANGED <<paid, slip>>
       \/ paid /\ i \in SuccessfulRows /\ UNCHANGED <<ledger, paid, slip>>
       \/ /\ ~paid /\ paid' = TRUE
          /\ read \in Recoverable \/ CanTransition(read, "SUCCESSFUL")
          /\ ledger' = [ledger EXCEPT ![i].status = "SUCCESSFUL", ![i].gpid = "payment"]
          /\ slip' = slip \cup Revived(i)

\* A webhook or verify call for a Razorpay payment (BookingPayments has its detail).
RazorpayPaid(i) ==
    /\ i \in SessionRows /\ ledger[i].gateway = "RAZORPAY" /\ bank[i] = "paid"
    /\ SettleSession(i, ledger[i].status)
    /\ UNCHANGED <<bank, checkout, callback, sweep>>

\* reconcile_booking_payment looks at the booking's newest row alone.
ReconcileBooking ==
    LET i == Len(ledger) IN
    /\ i # 0 /\ ledger[i].gpid = "order" /\ bank[i] = "paid"
    /\ SettleSession(i, IF ledger[i].status \in Recoverable THEN "PENDING" ELSE ledger[i].status)
    /\ UNCHANGED <<bank, checkout, callback, sweep>>

\* reconcile_pending_payments goes through the young rows that wait.
ReconcilePending(i) ==
    /\ i \in SessionRows /\ ledger[i].status \in {"PENDING", "PROCESSING"}
    /\ ledger[i].gpid = "order" /\ bank[i] = "paid"
    /\ SettleSession(i, ledger[i].status)
    /\ UNCHANGED <<bank, checkout, callback, sweep>>

-----------------------------------------------------------------------------
\* A commit of a status that was read before others changed the row.
Overwrite(i, status) ==
    /\ ledger' = SetStatus(i, status)
    /\ slip' = IF ledger[i].status = "SUCCESSFUL" THEN slip \cup {"overwritten"}
               ELSE IF status = "PROCESSING" THEN slip \cup Revived(i) ELSE slip

\* process_icici_callback finds an unsettled row by its merchantTxnNo.
Return(h, i) ==
    /\ callback[h] = Away
    /\ i \in RowNo /\ ledger[i].gateway = "ICICI" /\ ledger[i].gpid = "order"
    /\ callback' = [callback EXCEPT ![h] = [row |-> i, read |-> ledger[i].status, said |-> "-"]]
    /\ UNCHANGED <<ledger, bank, paid, checkout, sweep, told, slip>>

\* verify_callback_identity refuses the payload: no question to the bank.
RefuseReturn(h) ==
    /\ callback[h] # Away /\ callback[h].said = "-"
    /\ callback' = [callback EXCEPT ![h] = Away]
    /\ IF callback[h].read # "FAILED" /\ CanTransition(callback[h].read, "FAILED")
       THEN Overwrite(callback[h].row, "FAILED") ELSE UNCHANGED <<ledger, slip>>
    /\ UNCHANGED <<bank, paid, checkout, sweep, told>>

\* check_transaction_status: the STATUS answer, or a timeout; what is neither paid
\* nor pending counts as failed.
AskStatus(h, said) ==
    /\ callback[h] # Away /\ callback[h].said = "-"
    /\ said = "paid" => bank[callback[h].row] = "paid"
    /\ said = "failed" => bank[callback[h].row] = "open"
    /\ callback' = [callback EXCEPT ![h].said = said]
    /\ UNCHANGED <<ledger, bank, paid, checkout, sweep, told, slip>>

Concluded(said) == IF said = "pending" THEN "PROCESSING" ELSE "FAILED"

\* The answer that is no payment goes into the row, by the status read at first.
Conclude(h) ==
    LET c == callback[h] IN
    /\ c.said \in {"pending", "failed"} /\ callback' = [callback EXCEPT ![h] = Away]
    /\ IF c.read # Concluded(c.said) /\ CanTransition(c.read, Concluded(c.said))
       THEN Overwrite(c.row, Concluded(c.said)) ELSE UNCHANGED <<ledger, slip>>
    /\ UNCHANGED <<bank, paid, checkout, sweep, told>>

ConfirmReturn(h) ==
    /\ callback[h].said = "paid" /\ callback' = [callback EXCEPT ![h] = Away]
    /\ SettleSession(callback[h].row, callback[h].read)
    /\ UNCHANGED <<bank, checkout, sweep>>

-----------------------------------------------------------------------------
\* expire_stale_transactions asks Razorpay and nobody about ICICI, and commits the
\* rows it selected together.
SelectStale(rows) ==
    /\ sweep = {} /\ rows # {} /\ sweep' = rows
    /\ \A i \in rows : /\ ledger[i].status = "PENDING"
                       /\ ledger[i].gateway = "RAZORPAY" => bank[i] = "open"
    /\ UNCHANGED <<ledger, bank, paid, checkout, callback, told, slip>>

ExpireStale ==
    /\ sweep # {} /\ sweep' = {}
    /\ ledger' = [i \in RowNo |-> IF i \in sweep THEN [ledger[i] EXCEPT !.status = "EXPIRED"] ELSE ledger[i]]
    /\ slip' = IF sweep \cap SuccessfulRows # {} THEN slip \cup {"overwritten"} ELSE slip
    /\ UNCHANGED <<bank, paid, checkout, callback, told>>

GatewayNext ==
    \/ \E c \in Checkout, gw \in Gateway : InitiatePayment(c, gw) \/ RetryPayment(c, gw)
    \/ \E c \in Checkout : RetryIcici(c) \/ OpenSession(c) \/ NoSession(c)
    \/ \E i \in 1 .. MaxRow : Pay(i) \/ RazorpayPaid(i) \/ ReconcilePending(i)
    \/ ReconcileBooking
    \/ \E h \in Callback, i \in 1 .. MaxRow : Return(h, i)
    \/ \E h \in Callback, said \in {"paid", "pending", "failed"} : AskStatus(h, said)
    \/ \E h \in Callback : RefuseReturn(h) \/ Conclude(h) \/ ConfirmReturn(h)
    \/ \E rows \in SUBSET RowNo : SelectStale(rows)
    \/ ExpireStale

GatewaySpec == GatewayInit /\ [][GatewayNext]_gatewayVars

-----------------------------------------------------------------------------
GatewayTypeOK ==
    /\ Cardinality(SessionRows) <= MaxSession /\ Len(ledger) <= MaxRow
    /\ \A i \in RowNo : ledger[i] \in [gateway : Gateway, status : TxStatus, session : RowNo,
                                        gpid : {"order", "payment"}, dup : BOOLEAN]
    /\ bank \in [1 .. MaxRow -> {"open", "paid"}] /\ paid \in BOOLEAN
    /\ checkout \in [Checkout -> Gateway \cup {"-"}]
    /\ \A h \in Callback : callback[h].row \in RowNo \cup {0}
    /\ sweep \subseteq RowNo /\ told \subseteq RowNo
    /\ slip \subseteq {"overlap", "revived", "overwritten"}

\* "Reject dual Razorpay+ICICI sessions": only one gateway has open or settled
\* sessions, unless two checkouts crossed or a payment revived a dead session.
OneGateway == \A i, j \in Live : ledger[i].gateway = ledger[j].gateway \/ slip # {}

\* A confirmed booking rests on exactly one settled row, and the gateway has its
\* money, unless a late callback or sweep overwrote the row.
Backed ==
    /\ paid => SuccessfulRows # {} \/ "overwritten" \in slip
    /\ \A i, j \in SuccessfulRows : i = j
    /\ \A i \in RowNo : ledger[i].status = "SUCCESSFUL" => bank[ledger[i].session] = "paid"

\* Money that somebody was told of is in the ledger once, as the booking's payment
\* or as a PAY-DUP row to refund, whichever of callbacks, webhooks, sweeps and
\* reconciliations come late, twice or at once.
Accounted ==
    \A s \in told :
        /\ Cardinality(SettledAs(s)) = 1
        /\ "overwritten" \in slip \/ \A i \in SettledAs(s) : ledger[i].status = "SUCCESSFUL"

\* One gateway at a time takes the booking's money, and none of it is lost or
\* counted twice (handle_verified_payment, process_icici_callback).
GatewayMoney == OneGateway /\ Backed /\ Accounted
=============================================================================
