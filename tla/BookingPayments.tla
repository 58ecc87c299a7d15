-------------------------- MODULE BookingPayments --------------------------
(***************************************************************************)
(* The payment core: how gateway webhooks, the checkout verify endpoint,   *)
(* the order endpoint and the refund endpoint move the ledger              *)
(* (payment_transactions, invoices, refunds, payment_webhook_events) and   *)
(* the bookings.                                                           *)
(*                                                                         *)
(* A request runs handle_verified_payment in three steps: it takes the     *)
(* advisory lock and reads (Begin), it writes and commits (one Finish...   *)
(* action per outcome), and after a confirmation it dispatches the side    *)
(* effects (Dispatch).  The commit is the one inside log_audit_action,     *)
(* which releases the lock.  What a request read stays in its session: it  *)
(* decides on that snapshot, and its UPDATEs carry only changed columns; a *)
(* write to the booking also checks the version of the row it loaded.      *)
(* A Crash loses the sessions and the fulfilment jobs, not the rows.       *)
(***************************************************************************)
EXTENDS Naturals, PaymentStatus

CONSTANTS
    Booking,        \* booking references
    Order,          \* gateway order ids
    Payment,        \* gateway payment ids
    Worker,         \* request slots of the API processes
    Total,          \* the booking amount, in refund units
    MaxTx,          \* bound: ledger rows
    MaxCrash,       \* bound: process crashes
    Subscribed,     \* kinds of message the gateway account sends
    VerifyAt,       \* gateway states of a payment whose checkout returned to the browser
    UnkeyedKinds,   \* kinds of message that do not name the booking
    Outage,         \* whether the gateway may fail to answer for an order
    ThreadEnds,     \* how a fulfilment thread may end
    NoId            \* absent id

ASSUME IdAssumption ==
    /\ Booking \cap Order = {} /\ Order \cap Payment = {} /\ Booking \cap Payment = {}
    /\ NoId \notin Booking \cup Order \cup Payment
ASSUME OutcomeAssumption ==
    Outage \in BOOLEAN /\ ThreadEnds \subseteq {"sent", "unsent", "unstored"}
ASSUME BoundAssumption == Total \in Nat \ {0} /\ MaxTx \in Nat \ {0} /\ MaxCrash \in Nat

TxId == 1 .. MaxTx

\* What the gateway or the browser tells the API.  "refund" stands for
\* refund.created, refund.processed and payment.refunded.
SuccessKind == {"payment.captured", "order.paid", "VERIFY_ENDPOINT"}
WebhookKind == {"payment.captured", "order.paid", "payment.authorized",
                "payment.failed", "refund"}
Kind == SuccessKind \cup WebhookKind

\* cum is the payment's amount_refunded when a refund event was emitted.
Event == [kind : Kind, pay : Payment, cum : 0 .. Total, ref : Booking \cup {NoId}]

\* A gateway_response: the ids stored at its top level and in its payload.
GatewayResponse == [top : SUBSET (Order \cup Payment), payload : SUBSET (Order \cup Payment)]

\* A payment_transactions row.  gpid is gateway_payment_id, resp is
\* gateway_response, invoices the number of its invoice rows and inv their
\* status, refunded the sum of its Refund rows.
Row == [bk : Booking, status : TxStatus, gpid : Order \cup Payment,
        resp : GatewayResponse, dup : BOOLEAN,
        inv : InvoiceStatus, invoices : Nat, refunded : 0 .. Total]
NoRow == [status |-> "NONE"]
Table == [txs : [TxId -> Row \cup {NoRow}], booking : [Booking -> BookingStatus]]

VARIABLES
    db,         \* the committed ledger rows and booking statuses
    recorded,   \* payment_webhook_events: ids of events already handled
    acked,      \* events the gateway got a 2xx for
    req,        \* the request in each slot
    seen,       \* the rows each request's session has loaded
    stale,      \* requests whose booking was written since they loaded it
    creating,   \* where the order endpoint is with each order
    late,       \* orders stored over a row that was not PENDING any more
    unchecked,  \* orders booked while the gateway did not say whose they are
    refunding,  \* amount of the refund that holds each row's lock, or 0
    jobs,       \* rows whose invoice fulfilment thread is scheduled
    fulfilled,  \* how the last fulfilment thread of each row ended
    crashes,    \* how many crashes happened
    owner,      \* gateway: receipt of each order
    offered,    \* gateway: orders a customer can pay
    gw          \* gateway: each payment

ledger == <<db, recorded>>
server == <<acked, req, seen, stale, creating, late, unchecked, refunding, jobs,
            fulfilled, crashes>>
gateway == <<owner, offered, gw>>
vars == <<db, recorded, acked, req, seen, stale, creating, late, unchecked, refunding,
          jobs, fulfilled, crashes, owner, offered, gw>>

GatewayPayment == [ord : Order \cup {NoId},
                   st : {"none", "authorized", "captured", "failed"},
                   refunded : 0 .. Total, cums : SUBSET (1 .. Total)]
Idle == [pc |-> "idle"]
Request == {Idle} \cup [pc : {"commit"}, ev : Event]
                  \cup [pc : {"dispatch"}, ev : Event, tx : TxId]
\* tx is the row the order will be stored in, 0 for a new one.
NoOrder == [pc |-> "no", tx |-> 0]
Creation == [pc : {"no", "created", "chosen"}, tx : {0} \cup TxId]
Fulfilment == {"never", "sent", "unsent", "unstored"}
Blank == [txs |-> [t \in TxId |-> NoRow], booking |-> [b \in Booking |-> "PENDING"]]

TypeOK ==
    /\ db \in Table
    /\ recorded \subseteq Event
    /\ acked \subseteq Event
    /\ req \in [Worker -> Request]
    /\ seen \in [Worker -> Table]
    /\ stale \subseteq Worker
    /\ creating \in [Order -> Creation]
    /\ late \subseteq Order
    /\ unchecked \subseteq Order
    /\ refunding \in [TxId -> 0 .. Total]
    /\ jobs \subseteq TxId
    /\ fulfilled \in [TxId -> Fulfilment]
    /\ crashes \in 0 .. MaxCrash
    /\ owner \in [Order -> Booking \cup {NoId}]
    /\ offered \subseteq Order
    /\ gw \in [Payment -> GatewayPayment]

Init ==
    /\ db = Blank
    /\ recorded = {}
    /\ acked = {}
    /\ req = [w \in Worker |-> Idle]
    /\ seen = [w \in Worker |-> Blank]
    /\ stale = {}
    /\ creating = [o \in Order |-> NoOrder]
    /\ late = {}
    /\ unchecked = {}
    /\ refunding = [t \in TxId |-> 0]
    /\ jobs = {}
    /\ fulfilled = [t \in TxId |-> "never"]
    /\ crashes = 0
    /\ owner = [o \in Order |-> NoId]
    /\ offered = {}
    /\ gw = [p \in Payment |-> [ord |-> NoId, st |-> "none", refunded |-> 0, cums |-> {}]]

-----------------------------------------------------------------------------
(* What the gateway has to say.                                            *)

OrderOf(e) == gw[e.pay].ord
GatewayIds(e) == {e.pay, OrderOf(e)}

\* The booking a message names: order.paid always carries the order's receipt,
\* the other webhooks only if the checkout copied the notes; the browser may
\* send any reference, or none.
RefAllowed(e) ==
    CASE e.kind = "VERIFY_ENDPOINT" -> e.ref # NoId \/ e.kind \in UnkeyedKinds
      [] e.kind = "order.paid" -> e.ref = owner[OrderOf(e)]
      [] OTHER -> e.ref = IF e.kind \in UnkeyedKinds THEN NoId ELSE owner[OrderOf(e)]

\* e has been emitted: the gateway sends each event at least once, in any order.
Emitted(e) ==
    /\ e.kind \in Subscribed
    /\ OrderOf(e) # NoId
    /\ CASE e.kind = "VERIFY_ENDPOINT" -> gw[e.pay].st \in VerifyAt
         [] e.kind = "payment.authorized" -> gw[e.pay].st \in {"authorized", "captured"}
         [] e.kind = "payment.failed" -> gw[e.pay].st = "failed"
         [] OTHER -> gw[e.pay].st = "captured"
    /\ e.kind = "refund" => e.cum \in gw[e.pay].cums
    /\ e.kind # "refund" => e.cum = 0
    /\ RefAllowed(e)

\* lock_key = booking_ref or order_id.
LockKey(e) == IF e.ref # NoId THEN e.ref ELSE OrderOf(e)

-----------------------------------------------------------------------------
(* handle_verified_payment, part 1: which row is meant.  s is the snapshot *)
(* the request loaded.  Rows are numbered in order of created_at; a lookup *)
(* returns the set of the one id it finds, {0} when it finds none.         *)

Newest(S) == IF S = {} THEN {0} ELSE {t \in S : \A u \in S : u <= t}
Oldest(S) == IF S = {} THEN {0} ELSE {t \in S : \A u \in S : t <= u}

\* collect_tx_gateway_ids.
StoredIds(row) == {row.gpid} \cup row.resp.top \cup row.resp.payload

RowsOf(s, b) == {t \in TxId : s.txs[t] # NoRow /\ s.txs[t].bk = b}

ByGatewayId(s, e) ==
    {t \in TxId : /\ s.txs[t] # NoRow
                  /\ s.txs[t].gpid \in GatewayIds(e)
                  /\ e.ref # NoId => s.txs[t].bk = e.ref}
ByStoredId(s, e) ==
    {t \in RowsOf(s, e.ref) : StoredIds(s.txs[t]) \cap GatewayIds(e) # {}}
ByOpenFallback(s, e) == {t \in RowsOf(s, e.ref) : s.txs[t].status \in Open}

\* The browser names a booking that has no row of this payment's order.
Asks(s, e) == e.kind = "VERIFY_ENDPOINT" /\ e.ref # NoId /\ ByStoredId(s, e) = {}

\* Whether fetch_order answers (asked) is up to the gateway; where the order is
\* not asked for, nothing can fail.
Answers(s, e) == IF Outage /\ Asks(s, e) THEN BOOLEAN ELSE {TRUE}

\* Faulty: the guard is missing.
CrossBookingOff(s, e, asked) == FALSE

\* The cross-booking guard: the order must carry the named booking as its
\* receipt.  Without an answer there is no guard.
CrossBooking(s, e, asked) == asked /\ Asks(s, e) /\ owner[OrderOf(e)] # e.ref

\* Without an answer there is no fallback to an open row either.
Found(s, e, asked) ==
    IF ByGatewayId(s, e) # {} THEN Newest(ByGatewayId(s, e))
    ELSE IF ByStoredId(s, e) # {} THEN Newest(ByStoredId(s, e))
    ELSE IF asked THEN Newest(ByOpenFallback(s, e))
    ELSE {0}

\* The non-duplicate SUCCESSFUL rows of a booking.
Settlements(s, b) ==
    {t \in RowsOf(s, b) : s.txs[t].status = "SUCCESSFUL" /\ ~s.txs[t].dup}

\* Faulty: every event of a settled booking passes for a repetition.
AnyPayment(s, e, t) == t # 0

SamePayment(s, e, t) == t # 0 /\ StoredIds(s.txs[t]) \cap GatewayIds(e) # {}

\* An event of the payment that settled the booking is moved to that row.
Resolved(s, e, asked) ==
    { IF t # 0 /\ s.txs[t].status # "SUCCESSFUL" /\ SamePayment(s, e, u) THEN u ELSE t :
        t \in Found(s, e, asked), u \in Oldest(Settlements(s, e.ref)) }

\* The booking the event concerns: the named one, else the row's.
ResolvedBooking(s, e, t) ==
    IF e.ref # NoId THEN {e.ref} ELSE IF t # 0 THEN {s.txs[t].bk} ELSE {}

\* The row that settled the booking, for _confirmed_booking_payment_result.
SettlingRow(s, b, t) ==
    IF Settlements(s, b) = {} /\ t # 0 /\ s.txs[t].status = "SUCCESSFUL" THEN {t}
    ELSE Oldest(Settlements(s, b))

-----------------------------------------------------------------------------
(* handle_verified_payment, part 2: taking the request.                    *)

InCommit(w) == req[w].pc = "commit"

\* The booking the session of v has loaded: the named one, else the row's.
Loaded(v) ==
    LET e == req[v].ev  s == seen[v] IN
    IF e.ref # NoId THEN {e.ref} ELSE {s.txs[t].bk : t \in Found(s, e, TRUE) \ {0}}

\* bookings.version moves with every write of the row: of the requests in W,
\* those that find it moved after the bookings B were written.
Stale(W, B) == {v \in W : v \in stale \/ (InCommit(v) /\ Loaded(v) \cap B # {})}

\* Faulty: no advisory lock, only the unique event id.
BlockedByEvent(w, e) ==
    \E v \in Worker \ {w} : InCommit(v) /\ e.kind \in WebhookKind /\ req[v].ev = e

\* The webhook's event row and the advisory lock are both held to the commit.
Blocked(w, e) ==
    \E v \in Worker \ {w} :
        /\ InCommit(v)
        /\ \/ LockKey(req[v].ev) = LockKey(e)
           \/ e.kind \in WebhookKind /\ req[v].ev = e

\* Faulty: the claim of the event is committed before the event is handled.
BeginClaimed(w, e) ==
    /\ req[w] = Idle
    /\ Emitted(e)
    /\ e \notin recorded
    /\ ~Blocked(w, e)
    /\ recorded' = IF e.kind \in WebhookKind THEN recorded \cup {e} ELSE recorded
    /\ req' = [req EXCEPT ![w] = [pc |-> "commit", ev |-> e]]
    /\ seen' = [seen EXCEPT ![w] = db]
    /\ UNCHANGED <<db, acked, stale, creating, late, unchecked, refunding, jobs,
                   fulfilled, crashes, gateway>>

\* A delivery that is not a known duplicate gets the lock and loads the rows.
Begin(w, e) ==
    /\ req[w] = Idle
    /\ Emitted(e)
    /\ e \notin recorded
    /\ ~Blocked(w, e)
    /\ req' = [req EXCEPT ![w] = [pc |-> "commit", ev |-> e]]
    /\ seen' = [seen EXCEPT ![w] = db]
    /\ UNCHANGED <<ledger, acked, stale, creating, late, unchecked, refunding, jobs,
                   fulfilled, crashes, gateway>>

\* DUPLICATE_IGNORED.
AckDuplicate(e) ==
    /\ e \in recorded \ acked
    /\ acked' = acked \cup {e}
    /\ UNCHANGED <<ledger, req, seen, stale, creating, late, unchecked, refunding,
                   jobs, fulfilled, crashes, gateway>>

Return(w) ==
    /\ req' = [req EXCEPT ![w] = Idle]
    /\ seen' = [seen EXCEPT ![w] = Blank]

\* The request of w commits what it wrote of the bookings B.
Written(w, B) == stale' = Stale(Worker \ {w}, B)

Record(e) == recorded' = IF e.kind \in WebhookKind THEN recorded \cup {e} ELSE recorded
Ack(e) == acked' = IF e.kind \in WebhookKind THEN acked \cup {e} ELSE acked

-----------------------------------------------------------------------------
(* handle_verified_payment, part 3: one action per outcome.  In all of them *)
(* e is the event, s the snapshot, t the resolved row and b the booking.   *)

\* An UPDATE carries the columns the session changed: new against old.
Column(cur, old, new) == IF new # old THEN new ELSE cur
Update(cur, old, new) ==
    [bk |-> Column(cur.bk, old.bk, new.bk),
     status |-> Column(cur.status, old.status, new.status),
     gpid |-> Column(cur.gpid, old.gpid, new.gpid),
     resp |-> Column(cur.resp, old.resp, new.resp),
     dup |-> cur.dup,
     inv |-> Column(cur.inv, old.inv, new.inv),
     invoices |-> cur.invoices + (new.invoices - old.invoices),
     refunded |-> cur.refunded]

FreeRow(t) == /\ db.txs[t] = NoRow
              /\ \A u \in TxId : u < t => db.txs[u] # NoRow

\* The unique index uq_payment_tx_live_gateway_payment_id.
GatewayIdFree(t, id) ==
    \A u \in TxId \ {t} : db.txs[u] # NoRow => db.txs[u].gpid # id

\* No refund request holds the row lock.
Unlocked(t) == refunding[t] = 0

\* Faulty: the duplicate flag is dropped.
UnflaggedRow(b, status, id, resp, dup) ==
    [bk |-> b, status |-> status, gpid |-> id, resp |-> resp, dup |-> FALSE,
     inv |-> "NONE", invoices |-> 0, refunded |-> 0]

\* Faulty: the gateway's id is not stored.
NamelessRow(b, status, id, resp, dup) ==
    [bk |-> b, status |-> status, gpid |-> NoId, resp |-> resp, dup |-> dup,
     inv |-> "NONE", invoices |-> 0, refunded |-> 0]

NewRow(b, status, id, resp, dup) ==
    [bk |-> b, status |-> status, gpid |-> id, resp |-> resp, dup |-> dup,
     inv |-> "NONE", invoices |-> 0, refunded |-> 0]

\* gateway_response := raw_payload, which the verify endpoint does not have.
RawResponse(e) ==
    [top |-> {}, payload |-> IF e.kind = "VERIFY_ENDPOINT" THEN {} ELSE GatewayIds(e)]

\* merge_gateway_response.
MergedResponse(old, e) ==
    [top |-> GatewayIds(e),
     payload |-> IF e.kind = "VERIFY_ENDPOINT" THEN old.payload ELSE GatewayIds(e)]

\* Faulty: only a row nobody touched may settle.
SettlePending(status) == status = "PENDING"

CanSettle(status) == status \in Recoverable \/ CanTransition(status, "SUCCESSFUL")

\* The row after a verified payment, with the invoice generate_invoice adds
\* unless the row has one.
SettledRow(old, e, b) ==
    [old EXCEPT !.bk = b, !.status = "SUCCESSFUL", !.gpid = e.pay,
                !.resp = MergedResponse(@, e),
                !.inv = IF old.invoices = 0 THEN "PAID" ELSE @,
                !.invoices = IF old.invoices = 0 THEN 1 ELSE @]

\* The booking is written in the version the session loaded (Outdated).
SetBooking(b, status) == [db.booking EXCEPT ![b] = status]

\* A success event of a booking the session saw confirmed, or not.
Confirms(s, e, b) == e.kind \in SuccessKind /\ s.booking[b] # "CONFIRMED"
Repeats(s, e, b) == e.kind \in SuccessKind /\ s.booking[b] = "CONFIRMED"

\* The request has to write its booking, and somebody else did since it loaded
\* it: StaleDataError, COMMIT_FAILED.
Outdated(w, s, e, t, b) ==
    /\ w \in stale
    /\ \/ Confirms(s, e, b)
       \/ e.kind = "payment.authorized"
       \/ e.kind = "refund" /\ e.cum = Total /\ t # 0 /\ s.txs[t].status \in Settled

Confirmed(w, e, t, b, row) ==
    /\ GatewayIdFree(t, row.gpid)
    /\ db' = [txs |-> [db.txs EXCEPT ![t] = row], booking |-> SetBooking(b, "CONFIRMED")]
    /\ Record(e)
    /\ req' = [req EXCEPT ![w] = [pc |-> "dispatch", ev |-> e, tx |-> t]]
    /\ seen' = [seen EXCEPT ![w] = Blank]
    /\ Written(w, {b})
    /\ UNCHANGED <<acked, creating, late, refunding, jobs, fulfilled, crashes, gateway>>

\* The order of e is booked although nobody answered for it.
Book(e, asked) == unchecked' = IF asked THEN unchecked ELSE unchecked \cup {OrderOf(e)}

\* The resolved row becomes SUCCESSFUL and the booking CONFIRMED.
FinishConfirm(w, s, e, t, b) ==
    /\ Confirms(s, e, b)
    /\ t # 0 /\ Unlocked(t)
    /\ CanSettle(s.txs[t].status)
    /\ Confirmed(w, e, t, b, Update(db.txs[t], s.txs[t], SettledRow(s.txs[t], e, b)))
    /\ UNCHANGED unchecked

\* No row matches: validate_amount_and_currency inserts a PAY-REC row first.
FinishConfirmUnmatched(w, s, e, t, b, asked) ==
    /\ Confirms(s, e, b)
    /\ t = 0
    /\ GatewayIdFree(0, OrderOf(e))
    /\ \E n \in TxId :
        /\ FreeRow(n)
        /\ Confirmed(w, e, n, b,
               SettledRow(NewRow(b, "PENDING", OrderOf(e), RawResponse(e), FALSE), e, b))
    /\ Book(e, asked)

\* Faulty: a repetition whose PDF is not stored gets a new invoice.
FinishReplayInvoices(w, s, e, t, b) ==
    \E u \in SettlingRow(s, b, t) :
        /\ Repeats(s, e, b)
        /\ SamePayment(s, e, u)
        /\ fulfilled[u] \in {"never", "unstored"}
        /\ db' = [db EXCEPT !.txs[u].invoices = @ + 1]
        /\ jobs' = jobs \cup {u}
        /\ Return(w) /\ Written(w, {}) /\ Record(e) /\ Ack(e)
        /\ UNCHANGED <<creating, late, unchecked, refunding, fulfilled, crashes,
                       gateway>>

\* The same payment again: only the fulfilment of an unstored PDF is scheduled,
\* and the request ends without a commit.
FinishReplay(w, s, e, t, b) ==
    \E u \in SettlingRow(s, b, t) :
        /\ Repeats(s, e, b)
        /\ SamePayment(s, e, u)
        /\ jobs' = IF s.txs[u].invoices > 0 /\ fulfilled[u] \in {"never", "unstored"}
                   THEN jobs \cup {u} ELSE jobs
        /\ Return(w) /\ Written(w, {}) /\ Ack(e)
        /\ UNCHANGED <<ledger, creating, late, unchecked, refunding, fulfilled,
                       crashes, gateway>>

\* Another payment for a confirmed booking: a PAY-DUP row.
FinishDuplicate(w, s, e, t, b, asked) ==
    \E u \in SettlingRow(s, b, t), n \in TxId :
        /\ Repeats(s, e, b)
        /\ ~SamePayment(s, e, u)
        /\ FreeRow(n)
        /\ GatewayIdFree(n, e.pay)
        /\ db' = [db EXCEPT !.txs[n] = NewRow(b, "SUCCESSFUL", e.pay, RawResponse(e), TRUE)]
        /\ Return(w) /\ Written(w, {}) /\ Record(e) /\ Ack(e) /\ Book(e, asked)
        /\ UNCHANGED <<creating, late, refunding, jobs, fulfilled, crashes, gateway>>

\* A handler that commits its row and the bookings B, and returns success.
Commit(w, e, txs, booking, B) ==
    /\ db' = [txs |-> txs, booking |-> booking]
    /\ Return(w) /\ Written(w, B) /\ Record(e) /\ Ack(e)
    /\ UNCHANGED <<creating, late, unchecked, refunding, jobs, fulfilled, crashes,
                   gateway>>

WriteRow(s, t, row) == [db.txs EXCEPT ![t] = Update(@, s.txs[t], row)]

\* Pre-authorized money: only a PENDING row is touched; the booking notes it.
FinishAuthorized(w, s, e, t, b) ==
    /\ e.kind = "payment.authorized"
    /\ IF t # 0 /\ s.txs[t].status = "PENDING"
       THEN /\ Unlocked(t) /\ GatewayIdFree(t, e.pay)
            /\ Commit(w, e, WriteRow(s, t, [s.txs[t] EXCEPT !.status = "PROCESSING",
                   !.gpid = e.pay, !.resp = RawResponse(e)]), db.booking, {b})
       ELSE Commit(w, e, db.txs, db.booking, {b})

\* Faulty: a failed attempt fails even a settled row.
FinishFailedAlways(w, s, e, t) ==
    /\ e.kind = "payment.failed"
    /\ t # 0 /\ Unlocked(t)
    /\ Commit(w, e, WriteRow(s, t, [s.txs[t] EXCEPT !.status = "FAILED",
           !.resp = RawResponse(e)]), db.booking, {})

\* A failed attempt: any row but a SUCCESSFUL one becomes FAILED.
FinishFailed(w, s, e, t) ==
    /\ e.kind = "payment.failed"
    /\ t # 0
    /\ IF s.txs[t].status # "SUCCESSFUL"
       THEN /\ Unlocked(t)
            /\ Commit(w, e, WriteRow(s, t, [s.txs[t] EXCEPT !.status = "FAILED",
                   !.resp = RawResponse(e)]), db.booking, {})
       ELSE Commit(w, e, db.txs, db.booking, {})

RefundedRow(old, full) ==
    [old EXCEPT !.status = IF full THEN "REFUNDED" ELSE "PARTIALLY_REFUNDED",
                !.inv = IF old.invoices = 0 THEN @
                        ELSE IF full THEN "CANCELLED" ELSE "PARTIALLY_PAID"]

\* Faulty: a full refund leaves the booking confirmed.
FinishRefundOnly(w, s, e, t, b) ==
    /\ e.kind = "refund"
    /\ t # 0 /\ Unlocked(t)
    /\ s.txs[t].status \in Settled
    /\ Commit(w, e, WriteRow(s, t, RefundedRow(s.txs[t], e.cum = Total)), db.booking, {})

\* A refund event: the row follows the event's own amount, a full refund
\* cancels the booking.
FinishRefund(w, s, e, t, b) ==
    /\ e.kind = "refund"
    /\ t # 0 /\ Unlocked(t)
    /\ s.txs[t].status \in Settled
    /\ Commit(w, e, WriteRow(s, t, RefundedRow(s.txs[t], e.cum = Total)),
              IF e.cum = Total THEN SetBooking(b, "CANCELLED") ELSE db.booking,
              IF e.cum = Total THEN {b} ELSE {})

\* INVALID_REFUND_STATE: the event is kept as FAILED and acknowledged.
FinishInvalidRefund(w, s, e, t) ==
    /\ e.kind = "refund"
    /\ t # 0
    /\ s.txs[t].status \notin Settled
    /\ Commit(w, e, db.txs, db.booking, {})

\* Nothing matches: REF_MISMATCH, NOT_FOUND, REFUND_TRANSACTION_NOT_FOUND.
Unmatched(s, e, t, asked) ==
    \/ CrossBooking(s, e, asked)
    \/ t = 0 /\ e.ref = NoId
    \/ t = 0 /\ e.kind \in {"payment.failed", "refund"}

\* The write raises: an illegal transition, or the unique index.  A verify call
\* whose amount the gateway does not confirm ends the same way.
Raises(s, e, t, b) ==
    \/ Outage /\ e.kind = "VERIFY_ENDPOINT" /\ Confirms(s, e, b)
    \/ /\ Confirms(s, e, b) /\ t # 0
       /\ ~(/\ CanSettle(s.txs[t].status)
            /\ GatewayIdFree(t, Column(db.txs[t].gpid, s.txs[t].gpid, e.pay)))
    \/ /\ Confirms(s, e, b) /\ t = 0
       /\ ~(GatewayIdFree(0, OrderOf(e)) /\ GatewayIdFree(0, e.pay))
    \/ /\ Repeats(s, e, b)
       /\ ~GatewayIdFree(0, e.pay)
       /\ \E u \in SettlingRow(s, b, t) : ~SamePayment(s, e, u)
    \/ /\ e.kind = "payment.authorized" /\ t # 0
       /\ s.txs[t].status = "PENDING" /\ ~GatewayIdFree(t, e.pay)

\* The request is rolled back with its event row and answered with an error.
Rollback(w) ==
    /\ Return(w) /\ Written(w, {})
    /\ UNCHANGED <<ledger, acked, creating, late, unchecked, refunding, jobs,
                   fulfilled, crashes, gateway>>

Finish(w) ==
    LET e == req[w].ev  s == seen[w] IN
    /\ InCommit(w)
    /\ \E asked \in Answers(s, e) : \E t \in Resolved(s, e, asked) :
        \/ Unmatched(s, e, t, asked) /\ Rollback(w)
        \/ /\ ~Unmatched(s, e, t, asked)
           /\ \E b \in ResolvedBooking(s, e, t) :
                \/ Outdated(w, s, e, t, b) /\ Rollback(w)
                \/ /\ ~Outdated(w, s, e, t, b)
                   /\ \/ FinishConfirm(w, s, e, t, b)
                      \/ FinishConfirmUnmatched(w, s, e, t, b, asked)
                      \/ FinishReplay(w, s, e, t, b)
                      \/ FinishDuplicate(w, s, e, t, b, asked)
                      \/ FinishAuthorized(w, s, e, t, b)
                      \/ FinishFailed(w, s, e, t)
                      \/ FinishRefund(w, s, e, t, b)
                      \/ FinishInvalidRefund(w, s, e, t)
                      \/ Raises(s, e, t, b) /\ Rollback(w)

\* Faulty: nothing is scheduled.
DispatchNothing(w) ==
    /\ req[w].pc = "dispatch"
    /\ Return(w) /\ Written(w, {}) /\ Ack(req[w].ev)
    /\ UNCHANGED <<ledger, creating, late, unchecked, refunding, jobs, fulfilled,
                   crashes, gateway>>

\* After the commit: schedule the invoice fulfilment, then answer.
Dispatch(w) ==
    /\ req[w].pc = "dispatch"
    /\ jobs' = jobs \cup {req[w].tx}
    /\ Return(w) /\ Written(w, {}) /\ Ack(req[w].ev)
    /\ UNCHANGED <<ledger, creating, late, unchecked, refunding, fulfilled, crashes,
                   gateway>>

-----------------------------------------------------------------------------
(* The order endpoint, the refund endpoint, the fulfilment thread.         *)

OpenRows(b) == {t \in RowsOf(db, b) : db.txs[t].status \in Open}
PendingRows(b) == {t \in RowsOf(db, b) : db.txs[t].status = "PENDING"}

\* create_order_endpoint asks the gateway for an order, unless the newest open
\* row already holds one (it is returned as it is).
CreateOrder(b, o) ==
    /\ db.booking[b] = "PENDING"
    /\ \A t \in Newest(OpenRows(b)) : t # 0 => db.txs[t].gpid \notin Order
    /\ owner[o] = NoId
    /\ owner' = [owner EXCEPT ![o] = b]
    /\ creating' = [creating EXCEPT ![o].pc = "created"]
    /\ UNCHANGED <<ledger, acked, req, seen, stale, late, unchecked, refunding,
                   jobs, fulfilled, crashes, offered, gw>>

OrderResponse(o) == [top |-> {o}, payload |-> {}]

\* The newest PENDING row by now will hold the order, or else a new one.
ChooseRow(o) ==
    /\ creating[o].pc = "created"
    /\ \E t \in Newest(PendingRows(owner[o])) :
          creating' = [creating EXCEPT ![o] = [pc |-> "chosen", tx |-> t]]
    /\ UNCHANGED <<ledger, acked, req, seen, stale, late, unchecked, refunding,
                   jobs, fulfilled, crashes, gateway>>

StoreOrder(o) ==
    \/ \E t \in TxId :
          /\ creating[o].tx = 0 /\ FreeRow(t)
          /\ db' = [db EXCEPT !.txs[t] = NewRow(owner[o], "PENDING", o, OrderResponse(o), FALSE)]
          /\ UNCHANGED late
    \/ \E t \in TxId :
          /\ creating[o].tx = t /\ Unlocked(t)
          /\ db' = [db EXCEPT !.txs[t] = [@ EXCEPT !.gpid = o, !.resp = OrderResponse(o)]]
          /\ late' = IF db.txs[t].status = "PENDING" THEN late ELSE late \cup {o}

\* The order is committed to that row, whatever became of the row meanwhile
\* (payment_transactions has no version), and the customer gets it.
PersistOrder(o) ==
    /\ creating[o].pc = "chosen"
    /\ StoreOrder(o)
    /\ creating' = [creating EXCEPT ![o] = NoOrder]
    /\ offered' = offered \cup {o}
    /\ UNCHANGED <<recorded, acked, req, seen, stale, unchecked, refunding, jobs,
                   fulfilled, crashes, owner, gw>>

\* The gateway accepts a refund of amt and will emit its event.
RefundAtGateway(p, amt) ==
    /\ gw[p].st = "captured"
    /\ gw[p].refunded + amt <= Total
    /\ gw' = [gw EXCEPT ![p].refunded = @ + amt, ![p].cums = @ \cup {gw[p].refunded + amt}]

Refundable(row) == row.status \in {"SUCCESSFUL", "PARTIALLY_REFUNDED"}

\* process_refund, up to the gateway's answer: the row is locked, the balance
\* is what the Refund rows leave.
RefundCall(t, amt) ==
    LET row == db.txs[t] IN
    /\ Refundable(row)
    /\ Unlocked(t)
    /\ amt <= Total - row.refunded
    /\ row.gpid \in Payment
    /\ RefundAtGateway(row.gpid, amt)
    /\ refunding' = [refunding EXCEPT ![t] = amt]
    /\ UNCHANGED <<ledger, acked, req, seen, stale, creating, late, unchecked, jobs,
                   fulfilled, crashes, owner, offered>>

\* Faulty: the refund is still pending after it was written.
RefundCommitAgain(t) ==
    LET row == db.txs[t]
        total == row.refunded + refunding[t]
        full == total >= Total
    IN
    /\ refunding[t] # 0
    /\ db' = [txs |-> [db.txs EXCEPT ![t] = [RefundedRow(row, full) EXCEPT !.refunded = total]],
              booking |-> IF full THEN [db.booking EXCEPT ![row.bk] = "CANCELLED"]
                          ELSE db.booking]
    /\ stale' = Stale(Worker, IF full THEN {row.bk} ELSE {})
    /\ UNCHANGED <<recorded, acked, req, seen, creating, late, unchecked, refunding,
                   jobs, fulfilled, crashes, gateway>>

\* process_refund, from the answer on: the Refund row, the status, the booking.
RefundCommit(t) ==
    LET row == db.txs[t]
        total == row.refunded + refunding[t]
        full == total >= Total
    IN
    /\ refunding[t] # 0
    /\ db' = [txs |-> [db.txs EXCEPT ![t] = [RefundedRow(row, full) EXCEPT !.refunded = total]],
              booking |-> IF full THEN [db.booking EXCEPT ![row.bk] = "CANCELLED"]
                          ELSE db.booking]
    /\ stale' = Stale(Worker, IF full THEN {row.bk} ELSE {})
    /\ refunding' = [refunding EXCEPT ![t] = 0]
    /\ UNCHANGED <<recorded, acked, req, seen, creating, late, unchecked, jobs,
                   fulfilled, crashes, gateway>>

\* A full refund whose booking was written between its read and its commit:
\* the money is back, and nothing of it is on the ledger.
RefundLost(t) ==
    /\ refunding[t] # 0
    /\ db.txs[t].refunded + refunding[t] >= Total
    /\ refunding' = [refunding EXCEPT ![t] = 0]
    /\ UNCHANGED <<ledger, acked, req, seen, stale, creating, late, unchecked, jobs,
                   fulfilled, crashes, gateway>>

\* The fulfilment thread: nothing goes out for money that is not there, and
\* what fails (the PDF, its upload, the message) is logged and not tried again.
Fulfil(t) ==
    /\ t \in jobs
    /\ jobs' = jobs \ {t}
    /\ \E end \in IF db.txs[t].status = "SUCCESSFUL" THEN ThreadEnds ELSE {"unstored"} :
          fulfilled' = [fulfilled EXCEPT ![t] = end]
    /\ UNCHANGED <<ledger, acked, req, seen, stale, creating, late, unchecked,
                   refunding, crashes, gateway>>

\* The process dies: open sessions roll back, locks and threads are gone.
Crash ==
    /\ crashes < MaxCrash
    /\ crashes' = crashes + 1
    /\ req' = [w \in Worker |-> Idle]
    /\ seen' = [w \in Worker |-> Blank]
    /\ stale' = {}
    /\ creating' = [o \in Order |-> NoOrder]
    /\ refunding' = [t \in TxId |-> 0]
    /\ jobs' = {}
    /\ UNCHANGED <<ledger, acked, late, unchecked, fulfilled, gateway>>

-----------------------------------------------------------------------------
(* The gateway and its customers.                                          *)

NoCapture(o) == \A p \in Payment : gw[p].ord = o => gw[p].st # "captured"

\* A customer tries to pay an order that is not paid.
Attempt(p, o, st) ==
    /\ gw[p].ord = NoId
    /\ o \in offered /\ NoCapture(o)
    /\ gw' = [gw EXCEPT ![p].ord = o, ![p].st = st]
    /\ UNCHANGED <<ledger, server, owner, offered>>

Capture(p) ==
    /\ gw[p].st = "authorized"
    /\ NoCapture(gw[p].ord)
    /\ gw' = [gw EXCEPT ![p].st = "captured"]
    /\ UNCHANGED <<ledger, server, owner, offered>>

\* A refund made on the gateway's own dashboard.
DashboardRefund(p, amt) ==
    /\ RefundAtGateway(p, amt)
    /\ UNCHANGED <<ledger, server, owner, offered>>

-----------------------------------------------------------------------------

\* A message reaches one of the API processes.
Deliver(e) == \E w \in Worker : Begin(w, e)

\* Everything except refunds.
PayNext ==
    \/ \E e \in Event : Deliver(e)
    \/ \E w \in Worker : Finish(w) \/ Dispatch(w)
    \/ \E e \in Event : AckDuplicate(e)
    \/ \E b \in Booking, o \in Order : CreateOrder(b, o)
    \/ \E o \in Order : ChooseRow(o) \/ PersistOrder(o)
    \/ \E t \in TxId : Fulfil(t)
    \/ \E p \in Payment, o \in Order, st \in {"authorized", "failed"} : Attempt(p, o, st)
    \/ \E p \in Payment : Capture(p)
    \/ Crash

RefundNext ==
    \/ \E t \in TxId, amt \in 1 .. Total : RefundCall(t, amt)
    \/ \E t \in TxId : RefundCommit(t) \/ RefundLost(t)
    \/ \E p \in Payment, amt \in 1 .. Total : DashboardRefund(p, amt)

Next == PayNext \/ RefundNext

PaySpec == Init /\ [][PayNext]_vars
Spec == Init /\ [][Next]_vars

\* The webhooks of this instance.
Webhook == {e \in Event : /\ e.kind \in Subscribed \cap WebhookKind
                          /\ e.kind = "refund" <=> e.cum > 0
                          /\ e.kind \in UnkeyedKinds <=> e.ref = NoId}

\* The gateway delivers a webhook again until it gets a 2xx.
Retry(e) == e \notin acked /\ (Deliver(e) \/ AckDuplicate(e))

\* A request that was taken is finished, scheduled threads run, the gateway
\* retries, and a delivery that waits for the advisory lock is served.
Fairness ==
    /\ \A w \in Worker : WF_vars(Finish(w) \/ Dispatch(w))
    /\ WF_vars(\E t \in TxId : Fulfil(t))
    /\ \A e \in Webhook : SF_vars(Retry(e))

FairPaySpec == PaySpec /\ Fairness

-----------------------------------------------------------------------------
(* Safety.                                                                 *)

Rows == {t \in TxId : db.txs[t] # NoRow}

\* The bookings that got a late order.
LateBookings == {owner[o] : o \in late}

\* However many events of however many payments race for a booking, at most one
\* row settles it; the others are flagged is_duplicate (DOUBLE PAYMENT DETECTED).
OneSettlement ==
    \A b \in Booking : \A t, u \in Settlements(db, b) : t = u

\* generate_invoice promises "duplicate prevention": it looks for an invoice
\* before it inserts one, in whatever session it runs.
OneInvoice == \A t \in Rows : db.txs[t].invoices <= 1

\* Money paid for one booking never settles a row of another one, whatever
\* reference the browser sends to the verify endpoint, unless the order was
\* booked while the gateway did not answer for it: the guard is skipped then.
NoCrossBooking ==
    \A t \in Rows, p \in Payment :
        db.txs[t].gpid = p /\ db.txs[t].status \in Settled
            => owner[gw[p].ord] = db.txs[t].bk \/ gw[p].ord \in unchecked

\* The same without the excuse, as the code has it: the order-receipt binding
\* check is "unconditional".
MoneyStaysHome ==
    \A t \in Rows, p \in Payment :
        db.txs[t].gpid = p /\ db.txs[t].status \in Settled
            => owner[gw[p].ord] = db.txs[t].bk

\* A capture the gateway got its 2xx for is on the ledger under its own payment
\* id: the money of a second payment is not taken for a repetition of the first.
\* A late order of the booking is excused: it takes the place of the id of the
\* payment that settled its row, and its own payment passes for that one.
CaptureOnLedger ==
    \A e \in acked : e.kind \in {"payment.captured", "order.paid"}
        => \/ \E t \in Rows : db.txs[t].gpid = e.pay
           \/ owner[OrderOf(e)] \in LateBookings

\* No booking is CONFIRMED without a payment that covers at least part of it:
\* the anomaly CONFIRMED_WITHOUT_PAYMENT of the reconciliation report. A full
\* refund therefore takes the confirmation with the money, in one step.
ConfirmedBacked ==
    \A b \in Booking : db.booking[b] = "CONFIRMED"
        => \E t \in RowsOf(db, b) :
              db.txs[t].status \in {"SUCCESSFUL", "PARTIALLY_REFUNDED"}

\* The Refund rows of a transaction never claim more than the gateway paid back
\* (for a booking with a late order they may not even name what was paid back).
RefundsReal ==
    \A t \in Rows : db.txs[t].refunded > 0 /\ db.txs[t].bk \notin LateBookings
        => db.txs[t].gpid \in Payment /\ db.txs[t].refunded <= gw[db.txs[t].gpid].refunded

-----------------------------------------------------------------------------
(* What a step may never do.                                               *)

\* A row that became SUCCESSFUL only ever leaves it for a refund, although the
\* failure and authorization handlers decide on a session that may be stale.
SettledOnlyRefunded ==
    [][\A t \in Rows : db.txs[t].status = "SUCCESSFUL"
          => db'.txs[t].status \in Settled]_vars

\* REFUNDED is terminal, as PaymentStateMachine says.
RefundedIsTerminal ==
    [][\A t \in Rows : db.txs[t].status = "REFUNDED" => db'.txs[t].status = "REFUNDED"]_vars

-----------------------------------------------------------------------------
(* Progress.                                                               *)

\* No webhook is retried for ever.
EveryEventAcked == \A e \in Webhook : Emitted(e) ~> e \in acked

\* Captured money confirms its booking, whatever crashes on the way.
CaptureConfirms ==
    \A p \in Payment, b \in Booking :
        (gw[p].st = "captured" /\ owner[gw[p].ord] = b) ~> (db.booking[b] = "CONFIRMED")

\* The invoice of the payment that settled a booking is worked on: a thread ends
\* for it, with the confirmation sent or with a logged failure, unless a crash
\* takes the thread: nothing schedules the fulfilment again.
FulfilledUnlessCrash ==
    \A t \in TxId : (t \in Rows /\ db.txs[t].status = "SUCCESSFUL" /\ ~db.txs[t].dup)
        ~> (fulfilled[t] # "never" \/ crashes > 0)

-----------------------------------------------------------------------------
(* The inductive invariant behind the type invariant ...                   *)

\* Rows are never deleted: what a session loaded still exists,
RowsKept ==
    \A w \in Worker, t \in TxId : seen[w].txs[t] # NoRow => db.txs[t] # NoRow

\* and so does the row the order endpoint chose, of the order's booking; it was
\* PENDING then, so it is no duplicate.
OrdersPlaced ==
    /\ \A t \in TxId : db.txs[t] # NoRow /\ db.txs[t].status = "PENDING" => ~db.txs[t].dup
    /\ \A o \in Order : creating[o].tx # 0
          => LET row == db.txs[creating[o].tx] IN
             row # NoRow /\ row.bk = owner[o] /\ ~row.dup

\* A refund in flight fits the balance of its row, which nobody else may use.
RefundFits ==
    \A t \in TxId : refunding[t] # 0
        => db.txs[t] # NoRow /\ db.txs[t].refunded + refunding[t] <= Total

\* Every order in use has a receipt, every event in hand has an order.
ReceiptsKnown ==
    /\ \A o \in offered \cup late : owner[o] # NoId
    /\ \A o \in Order : creating[o].pc # "no" => owner[o] # NoId
    /\ \A p \in Payment : gw[p].ord # NoId => owner[gw[p].ord] # NoId
    /\ \A w \in Worker : InCommit(w) => OrderOf(req[w].ev) # NoId

TypeInv == TypeOK /\ RowsKept /\ OrdersPlaced /\ RefundFits /\ ReceiptsKnown

\* ... and, when every message names its booking, behind the safety of the
\* rows: one request at a time per booking,
OnePerBooking ==
    \A v, w \in Worker : InCommit(v) /\ InCommit(w) /\ v # w
        => req[v].ev.ref # req[w].ev.ref

BookingNamed == \A w \in Worker : InCommit(w) => req[w].ev.ref \in Booking

\* so that nobody settles or invoices a row behind the back of the request that
\* loaded it.
SnapshotFresh ==
    \A w \in Worker, t \in TxId :
        LET old == seen[w].txs[t]  cur == db.txs[t] IN
        InCommit(w) /\ old # NoRow /\ old.bk = req[w].ev.ref
            => /\ cur.bk = old.bk
               /\ cur.status = "SUCCESSFUL" => old.status = "SUCCESSFUL"
               /\ cur.invoices = old.invoices

RowInv == OnePerBooking /\ BookingNamed /\ SnapshotFresh /\ OneInvoice

-----------------------------------------------------------------------------
(* The promise: BookingLedger, read off the ledger rows.                   *)

Promise == INSTANCE BookingLedger WITH
    settled <- [b \in Booking |-> {db.txs[t].gpid : t \in Settlements(db, b)}],
    duplicates <- {db.txs[t].gpid : t \in {u \in Rows : db.txs[u].dup}},
    confirmed <- {b \in Booking : db.booking[b] = "CONFIRMED"}

\* Without refunds, the detailed core implements the promise.
KeepsPromise == Promise!Spec
=============================================================================
