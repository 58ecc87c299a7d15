----------------------- MODULE BookingPaymentsProofs -----------------------
(***************************************************************************)
(* Proofs about the payment core, for every number of bookings, orders,    *)
(* payments, API processes, ledger rows and crashes.                       *)
(***************************************************************************)
EXTENDS BookingPayments, TLAPS

-----------------------------------------------------------------------------
(* The row operators.                                                      *)

\* A row of the table is not the empty slot.
LEMMA RowIsRow ==
    ASSUME NEW r \in Row
    PROVE  r # NoRow /\ r.status \in TxStatus
BY DEF Row, NoRow, TxStatus

\* An UPDATE of a row is a row of the same shape: it keeps the duplicate flag
\* and the Refund rows, and adds the invoices the session inserted.
LEMMA UpdateRow ==
    ASSUME NEW cur \in Row, NEW old \in Row, NEW new \in Row,
           new.invoices >= old.invoices
    PROVE  /\ Update(cur, old, new) \in Row
           /\ Update(cur, old, new).dup = cur.dup
           /\ Update(cur, old, new).refunded = cur.refunded
           /\ Update(cur, old, new).bk = Column(cur.bk, old.bk, new.bk)
           /\ Update(cur, old, new).status = Column(cur.status, old.status, new.status)
           /\ Update(cur, old, new).invoices = cur.invoices + (new.invoices - old.invoices)
BY DEF Update, Column, Row

\* A new row is a row.
LEMMA NewRowType ==
    ASSUME NEW b \in Booking, NEW status \in TxStatus, NEW id \in Order \cup Payment,
           NEW resp \in GatewayResponse, NEW dup \in BOOLEAN
    PROVE  NewRow(b, status, id, resp, dup) \in Row
BY BoundAssumption DEF NewRow, Row, InvoiceStatus

\* The ids of an event whose order is known.
LEMMA EventIds ==
    ASSUME TypeOK, NEW e \in Event, OrderOf(e) # NoId
    PROVE  /\ OrderOf(e) \in Order /\ e.pay \in Payment
           /\ GatewayIds(e) \subseteq Order \cup Payment
           /\ RawResponse(e) \in GatewayResponse
           /\ \A resp \in GatewayResponse : MergedResponse(resp, e) \in GatewayResponse
<1>1. e.pay \in Payment /\ OrderOf(e) \in Order
  BY DEF TypeOK, Event, OrderOf, GatewayPayment
<1>2. GatewayIds(e) \in SUBSET (Order \cup Payment)
  BY <1>1 DEF GatewayIds
<1>3. {} \in SUBSET (Order \cup Payment)
  OBVIOUS
<1> QED
  BY <1>1, <1>2, <1>3 DEF RawResponse, MergedResponse, GatewayResponse

\* A settled row is a row; it has an invoice, and one more only if it had none.
LEMMA SettledRowType ==
    ASSUME NEW old \in Row, NEW e \in Event, NEW b \in Booking, e.pay \in Payment,
           MergedResponse(old.resp, e) \in GatewayResponse
    PROVE  /\ SettledRow(old, e, b) \in Row
           /\ SettledRow(old, e, b).bk = b
           /\ SettledRow(old, e, b).status = "SUCCESSFUL"
           /\ SettledRow(old, e, b).invoices =
                  IF old.invoices = 0 THEN 1 ELSE old.invoices
BY DEF SettledRow, Row, TxStatus, InvoiceStatus

\* A refunded row is a row with the same invoices.
LEMMA RefundedRowType ==
    ASSUME NEW old \in Row, NEW full \in BOOLEAN
    PROVE  /\ RefundedRow(old, full) \in Row
           /\ RefundedRow(old, full).bk = old.bk
           /\ RefundedRow(old, full).status \in {"REFUNDED", "PARTIALLY_REFUNDED"}
           /\ RefundedRow(old, full).invoices = old.invoices
           /\ RefundedRow(old, full).refunded = old.refunded
           /\ RefundedRow(old, full).gpid = old.gpid
BY DEF RefundedRow, Row, TxStatus, InvoiceStatus

-----------------------------------------------------------------------------
(* Which row an event means.                                               *)

\* A lookup answers 0 or a member of the set it looks in.
LEMMA Lookup ==
    ASSUME NEW S
    PROVE  /\ \A t \in Newest(S) : (S = {} /\ t = 0) \/ t \in S
           /\ \A t \in Oldest(S) : (S = {} /\ t = 0) \/ t \in S
BY DEF Newest, Oldest

\* The row found for an event exists in the session's snapshot, and belongs to
\* the booking the event names if it names one.
LEMMA ResolvedRow ==
    ASSUME NEW s \in Table, NEW e \in Event, NEW asked \in BOOLEAN,
           NEW t \in Resolved(s, e, asked)
    PROVE  t = 0 \/ /\ t \in TxId
                    /\ s.txs[t] \in Row
                    /\ e.ref # NoId => s.txs[t].bk = e.ref
<1> DEFINE Good(u) == /\ u \in TxId
                      /\ s.txs[u] # NoRow
                      /\ e.ref # NoId => s.txs[u].bk = e.ref
<1>1. \A u \in Found(s, e, asked) : u = 0 \/ Good(u)
  BY Lookup DEF Found, ByGatewayId, ByStoredId, ByOpenFallback, RowsOf
<1>2. \A u \in Oldest(Settlements(s, e.ref)) : u = 0 \/ Good(u)
  BY Lookup DEF Settlements, RowsOf
<1>3. t = 0 \/ Good(t)
  BY <1>1, <1>2 DEF Resolved
<1>4. \A u \in TxId : s.txs[u] # NoRow => s.txs[u] \in Row
  BY DEF Table
<1> QED
  BY <1>3, <1>4

\* The row that settled a booking exists in the snapshot.
LEMMA SettlingRowType ==
    ASSUME NEW s \in Table, NEW b, NEW t \in 0 .. MaxTx, NEW u \in SettlingRow(s, b, t)
    PROVE  u \in 0 .. MaxTx
BY Lookup, BoundAssumption DEF SettlingRow, Settlements, RowsOf, TxId

\* The booking an event concerns.
LEMMA ResolvedBookingType ==
    ASSUME NEW s \in Table, NEW e \in Event, NEW asked \in BOOLEAN,
           NEW t \in Resolved(s, e, asked), NEW b \in ResolvedBooking(s, e, t)
    PROVE  b \in Booking /\ (e.ref # NoId => b = e.ref)
<1>1. CASE e.ref # NoId
  BY <1>1 DEF ResolvedBooking, Event
<1>2. CASE e.ref = NoId
  <2>1. t # 0 /\ b = s.txs[t].bk
    BY <1>2 DEF ResolvedBooking
  <2>2. s.txs[t] \in Row
    BY <2>1, ResolvedRow
  <2> QED
    BY <1>2, <2>1, <2>2 DEF Row
<1> QED
  BY <1>1, <1>2

-----------------------------------------------------------------------------
(* Type correctness.  The inductive invariant is TypeInv: a session's stale *)
(* UPDATE is well-typed only because the row it loaded still exists, a      *)
(* refund only because it fits what is left of its payment, a stored id     *)
(* only because the order of the event is known.                            *)

\* What a row may take the place of: no row, or itself with its booking, its
\* duplicate flag and its Refund rows; no row becomes PENDING again.
Replaces(t, row) ==
    \/ /\ db.txs[t] = NoRow
       /\ row.status = "PENDING" => ~row.dup
    \/ /\ row.bk = db.txs[t].bk /\ row.dup = db.txs[t].dup
       /\ row.refunded = db.txs[t].refunded
       /\ row.status = "PENDING" => db.txs[t] # NoRow /\ db.txs[t].status = "PENDING"

\* An UPDATE of a row that exists takes its place.
LEMMA UpdateReplaces ==
    ASSUME NEW t \in TxId, db.txs[t] \in Row, NEW old \in Row, NEW row \in Row,
           row.invoices >= old.invoices, row.bk = old.bk, row.status # "PENDING"
    PROVE  /\ Update(db.txs[t], old, row) \in Row
           /\ Replaces(t, Update(db.txs[t], old, row))
BY UpdateRow, RowIsRow DEF Replaces, Column

\* Writing one row keeps the table well-formed.
LEMMA WriteKeeps ==
    ASSUME TypeInv,
           NEW t \in TxId, NEW row \in Row, NEW booking \in [Booking -> BookingStatus],
           Replaces(t, row),
           db' = [txs |-> [db.txs EXCEPT ![t] = row], booking |-> booking],
           refunding' = refunding
    PROVE  /\ db' \in Table
           /\ \A u \in TxId : db.txs[u] # NoRow => db'.txs[u] # NoRow
           /\ RefundFits'
           /\ creating' = creating /\ owner' = owner => OrdersPlaced'
<1> USE DEF TypeInv, TypeOK
<1>1. db.txs \in [TxId -> Row \cup {NoRow}] /\ refunding \in [TxId -> 0 .. Total]
  BY DEF Table
<1>2. db'.txs = [db.txs EXCEPT ![t] = row] /\ db'.booking = booking
  OBVIOUS
<1>3. db' \in Table
  BY <1>1 DEF Table
<1>4. \A u \in TxId : db'.txs[u] = IF u = t THEN row ELSE db.txs[u]
  BY <1>1, <1>2
<1>5. row # NoRow
  BY RowIsRow
<1>6. RefundFits'
  BY <1>4, <1>5 DEF RefundFits, Replaces
<1>7. ASSUME creating' = creating, owner' = owner PROVE OrdersPlaced'
  <2>1. \A u \in TxId : db'.txs[u] # NoRow /\ db'.txs[u].status = "PENDING" => ~db'.txs[u].dup
    BY <1>4 DEF Replaces, OrdersPlaced
  <2>2. ASSUME NEW o \in Order, creating[o].tx # 0
        PROVE  LET old == db'.txs[creating[o].tx] IN
               old # NoRow /\ old.bk = owner[o] /\ ~old.dup
    <3>1. creating[o].tx \in TxId
      BY <2>2 DEF Creation
    <3>2. LET old == db.txs[creating[o].tx] IN
          old # NoRow /\ old.bk = owner[o] /\ ~old.dup
      BY <2>2 DEF OrdersPlaced
    <3> QED
      BY <1>4, <1>5, <3>1, <3>2 DEF Replaces
  <2> QED
    BY <1>7, <2>1, <2>2 DEF OrdersPlaced
<1> QED
  BY <1>3, <1>4, <1>5, <1>6, <1>7

\* A request that ends, or waits to dispatch, keeps the invariant of the sessions.
LEMMA SessionEnds ==
    ASSUME TypeInv, NEW w \in Worker, NEW r \in Request, r.pc # "commit",
           req' = [req EXCEPT ![w] = r],
           seen' = [seen EXCEPT ![w] = Blank],
           \A u \in TxId : db.txs[u] # NoRow => db'.txs[u] # NoRow,
           UNCHANGED <<creating, offered, late, owner, gw>>
    PROVE  /\ req' \in [Worker -> Request]
           /\ seen' \in [Worker -> Table]
           /\ RowsKept' /\ ReceiptsKnown'
<1> USE DEF TypeInv, TypeOK
<1>1. Blank \in Table
  BY DEF Blank, Table, BookingStatus
<1>2. req' \in [Worker -> Request] /\ seen' \in [Worker -> Table]
  BY <1>1
<1>3. RowsKept'
  BY DEF RowsKept, Blank
<1>4. ReceiptsKnown'
  <2>1. \A v \in Worker : InCommit(v)' => InCommit(v) /\ req'[v] = req[v]
    BY DEF InCommit
  <2> QED
    BY <2>1 DEF ReceiptsKnown, OrderOf
<1> QED
  BY <1>2, <1>3, <1>4

\* The initial state.
LEMMA InitTypeInv == Init => TypeInv
<1> SUFFICES ASSUME Init PROVE TypeInv
  OBVIOUS
<1> USE DEF Init
<1>1. Blank \in Table
  BY DEF Blank, Table, BookingStatus
<1>2. Idle \in Request /\ Idle.pc # "commit"
  BY DEF Idle, Request
<1>3. gw \in [Payment -> GatewayPayment]
  BY BoundAssumption DEF GatewayPayment
<1>4. NoOrder \in Creation /\ "never" \in Fulfilment
  BY DEF NoOrder, Creation, Fulfilment
<1>7. TypeOK
  <2>1. creating \in [Order -> Creation] /\ fulfilled \in [TxId -> Fulfilment]
    BY <1>4
  <2>2. db \in Table /\ seen \in [Worker -> Table] /\ req \in [Worker -> Request]
    BY <1>1, <1>2
  <2>3. crashes \in 0 .. MaxCrash /\ refunding \in [TxId -> 0 .. Total]
    BY BoundAssumption
  <2>4. /\ owner \in [Order -> Booking \cup {NoId}] /\ recorded \subseteq Event
        /\ acked \subseteq Event /\ stale \subseteq Worker /\ late \subseteq Order
        /\ unchecked \subseteq Order /\ jobs \subseteq TxId /\ offered \subseteq Order
    OBVIOUS
  <2> QED
    BY <1>3, <2>1, <2>2, <2>3, <2>4 DEF TypeOK
<1>5. RowsKept /\ RefundFits /\ OrdersPlaced
  BY DEF RowsKept, RefundFits, OrdersPlaced, Blank, NoOrder
<1>6. ReceiptsKnown
  BY <1>2 DEF ReceiptsKnown, InCommit, NoOrder
<1> QED
  BY <1>5, <1>6, <1>7 DEF TypeInv

\* Taking a request: the snapshot is the table itself.
LEMMA BeginTypeInv ==
    ASSUME TypeInv, NEW w \in Worker, NEW e \in Event, Begin(w, e)
    PROVE  TypeInv'
<1> USE DEF TypeInv, Begin, ledger, gateway
<1>1. [pc |-> "commit", ev |-> e] \in Request
  BY DEF Request
<1>2. TypeOK'
  BY <1>1 DEF TypeOK
<1>3. RowsKept' /\ RefundFits' /\ OrdersPlaced'
  BY DEF RowsKept, RefundFits, OrdersPlaced, TypeOK, ledger
<1>4. ReceiptsKnown'
  BY DEF ReceiptsKnown, InCommit, OrderOf, Emitted, TypeOK
<1> QED
  BY <1>2, <1>3, <1>4

\* A request that changes no row.
LEMMA ReturnTypeInv ==
    ASSUME TypeInv, NEW w \in Worker, Return(w), db' = db, stale' \subseteq Worker,
           recorded' \subseteq Event, acked' \subseteq Event, jobs' \subseteq TxId,
           UNCHANGED <<creating, late, unchecked, refunding, fulfilled, crashes, gateway>>
    PROVE  TypeInv'
<1> USE DEF TypeInv, Return, gateway
<1>1. Idle \in Request /\ Idle.pc # "commit"
  BY DEF Idle, Request
<1>2. /\ req' \in [Worker -> Request]
      /\ seen' \in [Worker -> Table]
      /\ RowsKept' /\ ReceiptsKnown'
  BY <1>1, SessionEnds
<1>3. TypeOK'
  BY <1>2 DEF TypeOK
<1>4. RefundFits' /\ OrdersPlaced'
  BY DEF RefundFits, OrdersPlaced
<1> QED
  BY <1>2, <1>3, <1>4

\* A request that writes one row and the booking statuses.
LEMMA WriteTypeInv ==
    ASSUME TypeInv, NEW w \in Worker, NEW r \in Request, r.pc # "commit",
           req' = [req EXCEPT ![w] = r], seen' = [seen EXCEPT ![w] = Blank],
           NEW t \in TxId, NEW row \in Row, NEW booking \in [Booking -> BookingStatus],
           Replaces(t, row),
           db' = [txs |-> [db.txs EXCEPT ![t] = row], booking |-> booking],
           recorded' \subseteq Event, acked' \subseteq Event,
           stale' \subseteq Worker, unchecked' \subseteq Order,
           UNCHANGED <<creating, late, refunding, jobs, fulfilled, crashes, gateway>>
    PROVE  TypeInv'
<1> USE DEF TypeInv, gateway
<1>1. /\ db' \in Table
      /\ \A u \in TxId : db.txs[u] # NoRow => db'.txs[u] # NoRow
      /\ RefundFits' /\ OrdersPlaced'
  BY WriteKeeps
<1>2. /\ req' \in [Worker -> Request]
      /\ seen' \in [Worker -> Table]
      /\ RowsKept' /\ ReceiptsKnown'
  BY <1>1, SessionEnds
<1>3. TypeOK'
  BY <1>1, <1>2 DEF TypeOK
<1> QED
  BY <1>1, <1>2, <1>3

-----------------------------------------------------------------------------
(* What a request holds when it is finished.                               *)

\* A request in hand has a typed event with a known order, a typed snapshot,
\* and a resolved row that exists both in the snapshot and on the ledger.
LEMMA Handling ==
    ASSUME TypeInv, NEW w \in Worker, InCommit(w),
           NEW asked \in BOOLEAN, NEW t \in Resolved(seen[w], req[w].ev, asked)
    PROVE  /\ req[w].ev \in Event /\ seen[w] \in Table
           /\ OrderOf(req[w].ev) # NoId
           /\ t # 0 => /\ t \in TxId
                       /\ seen[w].txs[t] \in Row /\ db.txs[t] \in Row
<1> USE DEF TypeInv
<1>1. req[w] \in Request /\ req[w].pc = "commit"
  BY DEF TypeOK, InCommit
<1>2. req[w].ev \in Event
  BY <1>1 DEF Request, Idle
<1>3. seen[w] \in Table
  BY DEF TypeOK
<1>4. t # 0 => t \in TxId /\ seen[w].txs[t] \in Row
  BY <1>2, <1>3, ResolvedRow
<1>5. t # 0 => db.txs[t] \in Row
  BY <1>4, RowIsRow DEF RowsKept, TypeOK, Table
<1>6. OrderOf(req[w].ev) # NoId
  BY DEF ReceiptsKnown
<1> QED
  BY <1>2, <1>3, <1>4, <1>5, <1>6

\* Recording and acknowledging an event of the instance.
LEMMA Bookkeeping ==
    ASSUME TypeOK, NEW e \in Event
    PROVE  /\ Record(e) => recorded' \subseteq Event
           /\ Ack(e) => acked' \subseteq Event
BY DEF TypeOK, Record, Ack

\* The requests that find their booking moved are requests.
LEMMA WrittenType ==
    ASSUME NEW w \in Worker, NEW B, Written(w, B)
    PROVE  stale' \subseteq Worker
BY DEF Written, Stale

\* Booking the order of an event.
LEMMA BookType ==
    ASSUME TypeOK, NEW e \in Event, OrderOf(e) # NoId, NEW asked, Book(e, asked)
    PROVE  unchecked' \subseteq Order
BY EventIds DEF TypeOK, Book

\* The booking statuses after a change of one of them.
LEMMA SetBookingType ==
    ASSUME TypeOK, NEW b, NEW status \in BookingStatus
    PROVE  SetBooking(b, status) \in [Booking -> BookingStatus]
<1>1. db.booking \in [Booking -> BookingStatus]
  BY DEF TypeOK, Table
<1> QED
  BY <1>1 DEF SetBooking

\* A confirmation writes a settled row.
LEMMA ConfirmedTypeInv ==
    ASSUME TypeInv, NEW w \in Worker, NEW e \in Event, NEW b \in Booking,
           NEW t \in TxId, NEW row \in Row,
           Replaces(t, row),
           Confirmed(w, e, t, b, row), unchecked' \subseteq Order
    PROVE  TypeInv'
<1> DEFINE booking == SetBooking(b, "CONFIRMED")
<1>1. booking \in [Booking -> BookingStatus]
  BY SetBookingType DEF TypeInv, BookingStatus
<1>2. recorded' \subseteq Event /\ acked' \subseteq Event
  BY Bookkeeping DEF Confirmed, TypeInv, TypeOK
<1> DEFINE r == [pc |-> "dispatch", ev |-> e, tx |-> t]
<1>3. r \in Request /\ r.pc # "commit"
  BY DEF Request
<1>4. /\ req' = [req EXCEPT ![w] = r] /\ seen' = [seen EXCEPT ![w] = Blank]
      /\ db' = [txs |-> [db.txs EXCEPT ![t] = row], booking |-> booking]
      /\ UNCHANGED <<creating, late, refunding, jobs, fulfilled, crashes, gateway>>
      /\ stale' \subseteq Worker
  BY WrittenType DEF Confirmed
<1> HIDE DEF booking, r
<1> QED
  BY <1>1, <1>2, <1>3, <1>4, WriteTypeInv

\* A handler that commits one row.
LEMMA CommitTypeInv ==
    ASSUME TypeInv, NEW w \in Worker, NEW e \in Event,
           NEW t \in TxId, NEW row \in Row, NEW booking \in [Booking -> BookingStatus],
           Replaces(t, row),
           NEW B, Commit(w, e, [db.txs EXCEPT ![t] = row], booking, B)
    PROVE  TypeInv'
<1>1. recorded' \subseteq Event /\ acked' \subseteq Event
  BY Bookkeeping DEF Commit, TypeInv
<1>4. stale' \subseteq Worker /\ unchecked' \subseteq Order
  BY WrittenType DEF Commit, TypeInv, TypeOK
<1>2. Idle \in Request /\ Idle.pc # "commit"
  BY DEF Idle, Request
<1>3. /\ req' = [req EXCEPT ![w] = Idle] /\ seen' = [seen EXCEPT ![w] = Blank]
      /\ db' = [txs |-> [db.txs EXCEPT ![t] = row], booking |-> booking]
      /\ UNCHANGED <<creating, late, unchecked, refunding, jobs, fulfilled, crashes, gateway>>
  BY DEF Commit, Return
<1> QED
  BY <1>1, <1>2, <1>3, <1>4, WriteTypeInv

\* A handler that commits only its event row.
LEMMA CommitNothingTypeInv ==
    ASSUME TypeInv, NEW w \in Worker, NEW e \in Event, NEW B,
           Commit(w, e, db.txs, db.booking, B)
    PROVE  TypeInv'
<1>1. db' = db
  BY DEF Commit, TypeInv, TypeOK, Table
<1>2. recorded' \subseteq Event /\ acked' \subseteq Event
  BY Bookkeeping DEF Commit, TypeInv
<1>3. stale' \subseteq Worker
  BY WrittenType DEF Commit
<1> QED
  BY <1>1, <1>2, <1>3, ReturnTypeInv DEF Commit, TypeInv, TypeOK

-----------------------------------------------------------------------------
(* The outcomes of a request.                                              *)

\* The columns of a handler's UPDATE: everything but the invoices.
LEMMA WriteRowTypeInv ==
    ASSUME TypeInv, NEW w \in Worker, InCommit(w),
           NEW asked \in BOOLEAN, NEW t \in Resolved(seen[w], req[w].ev, asked), t # 0,
           NEW row \in Row, row.invoices = seen[w].txs[t].invoices,
           row.bk = seen[w].txs[t].bk, row.status # "PENDING",
           NEW booking \in [Booking -> BookingStatus], NEW B,
           Commit(w, req[w].ev, WriteRow(seen[w], t, row), booking, B)
    PROVE  TypeInv'
<1> DEFINE cur == db.txs[t]  old == seen[w].txs[t]
<1>1. t \in TxId /\ cur \in Row /\ old \in Row /\ req[w].ev \in Event
  BY Handling
<1>2. old.invoices \in Nat
  BY <1>1 DEF Row
<1>3. Update(cur, old, row) \in Row /\ Replaces(t, Update(cur, old, row))
  BY <1>1, <1>2, UpdateReplaces
<1>4. WriteRow(seen[w], t, row) = [db.txs EXCEPT ![t] = Update(cur, old, row)]
  BY DEF WriteRow
<1> QED
  BY <1>1, <1>3, <1>4, CommitTypeInv

\* Confirming a resolved row.
LEMMA ConfirmTypeInv ==
    ASSUME TypeInv, NEW w \in Worker, InCommit(w),
           NEW asked \in BOOLEAN, NEW t \in Resolved(seen[w], req[w].ev, asked),
           NEW b \in ResolvedBooking(seen[w], req[w].ev, t),
           FinishConfirm(w, seen[w], req[w].ev, t, b)
    PROVE  TypeInv'
<1> DEFINE s == seen[w]  e == req[w].ev  row == SettledRow(s.txs[t], e, b)
           upd == Update(db.txs[t], s.txs[t], row)
<1>1. e \in Event /\ s \in Table /\ OrderOf(e) # NoId /\ t \in TxId
      /\ s.txs[t] \in Row /\ db.txs[t] \in Row
  BY Handling DEF FinishConfirm
<1>2. b \in Booking
  BY <1>1, ResolvedBookingType
<1>3. /\ row \in Row /\ row.invoices >= s.txs[t].invoices
      /\ row.bk = b /\ row.status # "PENDING"
  <2>1. e.pay \in Payment /\ s.txs[t].resp \in GatewayResponse /\ s.txs[t].invoices \in Nat
    BY <1>1 DEF Event, Row
  <2>2. MergedResponse(s.txs[t].resp, e) \in GatewayResponse
    BY <1>1, <2>1, EventIds DEF TypeInv
  <2> HIDE DEF s, e
  <2> QED
    BY <1>1, <1>2, <2>1, <2>2, SettledRowType
<1>4. upd \in Row /\ Replaces(t, upd)
  <2>1. s.txs[t].bk = b
    BY <1>1, ResolvedRow DEF ResolvedBooking, FinishConfirm
  <2> HIDE DEF row, s
  <2> QED
    BY <1>1, <1>3, <2>1, UpdateReplaces
<1>5. Confirmed(w, e, t, b, upd) /\ unchecked' \subseteq Order
  BY DEF FinishConfirm, TypeInv, TypeOK
<1> HIDE DEF e, upd
<1> QED
  BY <1>1, <1>2, <1>4, <1>5, ConfirmedTypeInv

\* Confirming a booking nothing matched, with a new PAY-REC row.
LEMMA ConfirmUnmatchedTypeInv ==
    ASSUME TypeInv, NEW w \in Worker, InCommit(w),
           NEW asked \in BOOLEAN, NEW t \in Resolved(seen[w], req[w].ev, asked),
           NEW b \in ResolvedBooking(seen[w], req[w].ev, t),
           FinishConfirmUnmatched(w, seen[w], req[w].ev, t, b, asked)
    PROVE  TypeInv'
<1> DEFINE s == seen[w]  e == req[w].ev
           new == NewRow(b, "PENDING", OrderOf(e), RawResponse(e), FALSE)
           row == SettledRow(new, e, b)
<1>1. e \in Event /\ s \in Table /\ OrderOf(e) # NoId
  BY Handling
<1>2. b \in Booking
  BY <1>1, ResolvedBookingType
<1>3. /\ OrderOf(e) \in Order /\ e.pay \in Payment
      /\ RawResponse(e) \in GatewayResponse
      /\ \A resp \in GatewayResponse : MergedResponse(resp, e) \in GatewayResponse
  BY <1>1, EventIds DEF TypeInv
<1>4. new \in Row
  BY <1>2, <1>3, NewRowType DEF TxStatus
<1>5. row \in Row /\ row.status # "PENDING"
  <2>1. new.resp \in GatewayResponse
    BY <1>4 DEF Row
  <2> HIDE DEF new, e
  <2> QED
    BY <1>1, <1>2, <1>3, <1>4, <2>1, SettledRowType
<1>6. PICK n \in TxId : FreeRow(n) /\ Confirmed(w, e, n, b, row)
  BY DEF FinishConfirmUnmatched
<1>7. Replaces(n, row)
  BY <1>5, <1>6 DEF FreeRow, Replaces
<1>8. unchecked' \subseteq Order
  BY <1>1, BookType DEF FinishConfirmUnmatched, TypeInv
<1> HIDE DEF row, e
<1> QED
  BY <1>1, <1>2, <1>5, <1>6, <1>7, <1>8, ConfirmedTypeInv

\* A repetition of the settling payment.
LEMMA ReplayTypeInv ==
    ASSUME TypeInv, NEW w \in Worker, InCommit(w),
           NEW asked \in BOOLEAN, NEW t \in Resolved(seen[w], req[w].ev, asked), NEW b,
           FinishReplay(w, seen[w], req[w].ev, t, b)
    PROVE  TypeInv'
<1> DEFINE s == seen[w]  e == req[w].ev
<1>1. e \in Event /\ s \in Table /\ t \in 0 .. MaxTx
  BY Handling, BoundAssumption DEF TxId
<1>2. PICK u \in SettlingRow(s, b, t) : SamePayment(s, e, u) /\
        jobs' = IF s.txs[u].invoices > 0 /\ fulfilled[u] \in {"never", "unstored"}
                THEN jobs \cup {u} ELSE jobs
  BY DEF FinishReplay
<1>3. u \in TxId
  BY <1>1, <1>2, SettlingRowType, BoundAssumption DEF SamePayment, TxId
<1>4. /\ Return(w) /\ Ack(e) /\ stale' \subseteq Worker
      /\ UNCHANGED <<ledger, creating, late, unchecked, refunding, fulfilled, crashes, gateway>>
  BY WrittenType DEF FinishReplay
<1>5. /\ db' = db /\ recorded' \subseteq Event /\ acked' \subseteq Event /\ jobs' \subseteq TxId
  BY <1>1, <1>2, <1>3, <1>4, Bookkeeping DEF ledger, TypeInv, TypeOK
<1> QED
  BY <1>4, <1>5, ReturnTypeInv

\* A second payment: the PAY-DUP row.
LEMMA DuplicateTypeInv ==
    ASSUME TypeInv, NEW w \in Worker, InCommit(w),
           NEW asked \in BOOLEAN, NEW t \in Resolved(seen[w], req[w].ev, asked),
           NEW b \in ResolvedBooking(seen[w], req[w].ev, t),
           FinishDuplicate(w, seen[w], req[w].ev, t, b, asked)
    PROVE  TypeInv'
<1> DEFINE s == seen[w]  e == req[w].ev
           row == NewRow(b, "SUCCESSFUL", e.pay, RawResponse(e), TRUE)
<1>1. e \in Event /\ s \in Table /\ OrderOf(e) # NoId
  BY Handling
<1>2. b \in Booking
  BY <1>1, ResolvedBookingType
<1>3. e.pay \in Payment /\ RawResponse(e) \in GatewayResponse
  BY <1>1, EventIds DEF TypeInv
<1>4. row \in Row
  BY <1>2, <1>3, NewRowType DEF TxStatus
<1>5. PICK n \in TxId : FreeRow(n) /\ db' = [db EXCEPT !.txs[n] = row]
  BY DEF FinishDuplicate
<1>6. db.booking \in [Booking -> BookingStatus]
      /\ db' = [txs |-> [db.txs EXCEPT ![n] = row], booking |-> db.booking]
  BY <1>5 DEF TypeInv, TypeOK, Table
<1>7. Replaces(n, row)
  BY <1>5 DEF FreeRow, Replaces, NewRow
<1>8. recorded' \subseteq Event /\ acked' \subseteq Event
  BY <1>1, Bookkeeping DEF FinishDuplicate, TypeInv
<1>9. stale' \subseteq Worker /\ unchecked' \subseteq Order
  BY <1>1, WrittenType, BookType DEF FinishDuplicate, TypeInv
<1>10. Idle \in Request /\ Idle.pc # "commit"
  BY DEF Idle, Request
<1>11. /\ req' = [req EXCEPT ![w] = Idle] /\ seen' = [seen EXCEPT ![w] = Blank]
       /\ UNCHANGED <<creating, late, refunding, jobs, fulfilled, crashes, gateway>>
  BY DEF FinishDuplicate, Return
<1> HIDE DEF row, e
<1> QED
  BY <1>4, <1>6, <1>7, <1>8, <1>9, <1>10, <1>11, WriteTypeInv

\* An authorization.
LEMMA AuthorizedTypeInv ==
    ASSUME TypeInv, NEW w \in Worker, InCommit(w),
           NEW asked \in BOOLEAN, NEW t \in Resolved(seen[w], req[w].ev, asked),
           NEW b, FinishAuthorized(w, seen[w], req[w].ev, t, b)
    PROVE  TypeInv'
<1> DEFINE old == seen[w].txs[t]  e == req[w].ev
           row == [old EXCEPT !.status = "PROCESSING", !.gpid = e.pay, !.resp = RawResponse(e)]
<1>1. e \in Event /\ OrderOf(e) # NoId
  BY Handling
<1>2. CASE t # 0 /\ old.status = "PENDING"
  <2>1. old \in Row
    BY <1>2, Handling
  <2>2. e.pay \in Payment /\ RawResponse(e) \in GatewayResponse
    BY <1>1, EventIds DEF TypeInv
  <2>3. /\ row \in Row /\ row.invoices = old.invoices
        /\ row.bk = old.bk /\ row.status # "PENDING"
    BY <2>1, <2>2 DEF Row, TxStatus
  <2>4. Commit(w, e, WriteRow(seen[w], t, row), db.booking, {b})
    BY <1>2 DEF FinishAuthorized
  <2>5. db.booking \in [Booking -> BookingStatus]
    BY DEF TypeInv, TypeOK, Table
  <2> HIDE DEF row
  <2> QED
    BY <1>2, <2>3, <2>4, <2>5, WriteRowTypeInv
<1>3. CASE ~(t # 0 /\ old.status = "PENDING")
  BY <1>1, <1>3, CommitNothingTypeInv DEF FinishAuthorized
<1> QED
  BY <1>2, <1>3

\* A failed attempt.
LEMMA FailedTypeInv ==
    ASSUME TypeInv, NEW w \in Worker, InCommit(w),
           NEW asked \in BOOLEAN, NEW t \in Resolved(seen[w], req[w].ev, asked),
           FinishFailed(w, seen[w], req[w].ev, t)
    PROVE  TypeInv'
<1> DEFINE old == seen[w].txs[t]  e == req[w].ev
           row == [old EXCEPT !.status = "FAILED", !.resp = RawResponse(e)]
<1>1. e \in Event /\ OrderOf(e) # NoId /\ t # 0
  BY Handling DEF FinishFailed
<1>2. CASE old.status # "SUCCESSFUL"
  <2>1. old \in Row
    BY <1>1, Handling
  <2>2. RawResponse(e) \in GatewayResponse
    BY <1>1, EventIds DEF TypeInv
  <2>3. /\ row \in Row /\ row.invoices = old.invoices
        /\ row.bk = old.bk /\ row.status # "PENDING"
    BY <2>1, <2>2 DEF Row, TxStatus
  <2>4. Commit(w, e, WriteRow(seen[w], t, row), db.booking, {})
    BY <1>2 DEF FinishFailed
  <2>5. db.booking \in [Booking -> BookingStatus]
    BY DEF TypeInv, TypeOK, Table
  <2> HIDE DEF row
  <2> QED
    BY <1>1, <2>3, <2>4, <2>5, WriteRowTypeInv
<1>3. CASE old.status = "SUCCESSFUL"
  BY <1>1, <1>3, CommitNothingTypeInv DEF FinishFailed
<1> QED
  BY <1>2, <1>3

\* A refund event.
LEMMA RefundTypeInv ==
    ASSUME TypeInv, NEW w \in Worker, InCommit(w),
           NEW asked \in BOOLEAN, NEW t \in Resolved(seen[w], req[w].ev, asked), NEW b,
           FinishRefund(w, seen[w], req[w].ev, t, b)
    PROVE  TypeInv'
<1> DEFINE old == seen[w].txs[t]  e == req[w].ev  full == (e.cum = Total)
           row == RefundedRow(old, full)
           booking == IF full THEN SetBooking(b, "CANCELLED") ELSE db.booking
<1>1. t # 0 /\ old \in Row
  BY Handling DEF FinishRefund
<1>2. row \in Row /\ row.invoices = old.invoices /\ row.bk = old.bk /\ row.status # "PENDING"
  <2> HIDE DEF old
  <2> QED
    BY <1>1, RefundedRowType
<1>3. booking \in [Booking -> BookingStatus]
  BY SetBookingType DEF TypeInv, TypeOK, Table, BookingStatus
<1>4. Commit(w, e, WriteRow(seen[w], t, row), booking, IF full THEN {b} ELSE {})
  BY DEF FinishRefund
<1> HIDE DEF row, booking
<1> QED
  BY <1>1, <1>2, <1>3, <1>4, WriteRowTypeInv

\* The outcomes of a request: unless it is rolled back, one of the handlers.
LEMMA FinishOutcomes ==
    ASSUME NEW w \in Worker, Finish(w)
    PROVE  LET s == seen[w]  e == req[w].ev IN
           /\ InCommit(w)
           /\ \E asked \in BOOLEAN : \E t \in Resolved(s, e, asked) :
                \/ Rollback(w)
                \/ /\ ~Unmatched(s, e, t, asked)
                   /\ \E b \in ResolvedBooking(s, e, t) :
                        /\ ~Outdated(w, s, e, t, b)
                        /\ \/ FinishConfirm(w, s, e, t, b)
                           \/ FinishConfirmUnmatched(w, s, e, t, b, asked)
                           \/ FinishReplay(w, s, e, t, b)
                           \/ FinishDuplicate(w, s, e, t, b, asked)
                           \/ FinishAuthorized(w, s, e, t, b)
                           \/ FinishFailed(w, s, e, t)
                           \/ FinishRefund(w, s, e, t, b)
                           \/ FinishInvalidRefund(w, s, e, t)
<1>1. Answers(seen[w], req[w].ev) \subseteq BOOLEAN
  BY DEF Answers
<1> QED
  BY <1>1 DEF Finish

\* Every outcome of a request.
LEMMA FinishTypeInv ==
    ASSUME TypeInv, NEW w \in Worker, Finish(w)
    PROVE  TypeInv'
<1> DEFINE s == seen[w]  e == req[w].ev
<1>1. InCommit(w)
  BY FinishOutcomes
<1>2. PICK asked, t :
        /\ asked \in BOOLEAN /\ t \in Resolved(s, e, asked)
        /\ \/ Rollback(w)
           \/ /\ ~Unmatched(s, e, t, asked)
              /\ \E b \in ResolvedBooking(s, e, t) :
                   \/ FinishConfirm(w, s, e, t, b)
                   \/ FinishConfirmUnmatched(w, s, e, t, b, asked)
                   \/ FinishReplay(w, s, e, t, b)
                   \/ FinishDuplicate(w, s, e, t, b, asked)
                   \/ FinishAuthorized(w, s, e, t, b)
                   \/ FinishFailed(w, s, e, t)
                   \/ FinishRefund(w, s, e, t, b)
                   \/ FinishInvalidRefund(w, s, e, t)
  BY FinishOutcomes
<1>3. e \in Event
  BY <1>1, <1>2, Handling
<1>4. CASE Rollback(w)
  BY <1>4, WrittenType, ReturnTypeInv DEF Rollback, ledger, TypeInv, TypeOK
<1>5. CASE FinishInvalidRefund(w, s, e, t)
  BY <1>3, <1>5, CommitNothingTypeInv DEF FinishInvalidRefund
<1> QED
  BY <1>1, <1>2, <1>4, <1>5, ConfirmTypeInv, ConfirmUnmatchedTypeInv, ReplayTypeInv,
     DuplicateTypeInv, AuthorizedTypeInv, FailedTypeInv, RefundTypeInv

\* Scheduling the fulfilment after the commit.
LEMMA DispatchTypeInv ==
    ASSUME TypeInv, NEW w \in Worker, Dispatch(w)
    PROVE  TypeInv'
<1>1. req[w] \in Request /\ req[w].pc = "dispatch"
  BY DEF TypeInv, TypeOK, Dispatch
<1>2. req[w].ev \in Event /\ req[w].tx \in TxId
  BY <1>1 DEF Request, Idle
<1>3. acked' \subseteq Event
  BY <1>2, Bookkeeping DEF Dispatch, TypeInv
<1>4. stale' \subseteq Worker
  BY WrittenType DEF Dispatch
<1> QED
  BY <1>2, <1>3, <1>4, ReturnTypeInv DEF Dispatch, ledger, TypeInv, TypeOK

-----------------------------------------------------------------------------
(* The other actions.                                                      *)

\* The row the order endpoint chose exists, is the booking's and no duplicate.
LEMMA ChooseRowTypeInv ==
    ASSUME TypeInv, NEW o \in Order, ChooseRow(o)
    PROVE  TypeInv'
<1>1. PICK t \in Newest(PendingRows(owner[o])) :
        creating' = [creating EXCEPT ![o] = [pc |-> "chosen", tx |-> t]]
  BY DEF ChooseRow
<1>2. t = 0 \/ /\ t \in TxId /\ db.txs[t] # NoRow /\ db.txs[t].bk = owner[o]
               /\ db.txs[t].status = "PENDING"
  BY Lookup DEF PendingRows, RowsOf
<1>3. [pc |-> "chosen", tx |-> t] \in Creation
  BY <1>2 DEF Creation
<1>4. TypeOK'
  BY <1>1, <1>3 DEF ChooseRow, ledger, gateway, TypeInv, TypeOK
<1>5. \A q \in Order : creating'[q] = IF q = o THEN [pc |-> "chosen", tx |-> t] ELSE creating[q]
  BY <1>1 DEF TypeInv, TypeOK
<1>6. OrdersPlaced'
  BY <1>2, <1>5 DEF ChooseRow, ledger, gateway, TypeInv, OrdersPlaced
<1>7. RowsKept' /\ RefundFits'
  BY DEF ChooseRow, ledger, TypeInv, RowsKept, RefundFits
<1>8. ReceiptsKnown'
  BY <1>5 DEF ChooseRow, gateway, TypeInv, ReceiptsKnown, InCommit, OrderOf
<1> QED
  BY <1>4, <1>6, <1>7, <1>8 DEF TypeInv

\* What storing an order writes: a new PENDING row, or the order's id and
\* response over the row that was chosen.
PlacesNew(o, t, row) ==
    /\ FreeRow(t)
    /\ row = NewRow(owner[o], "PENDING", o, OrderResponse(o), FALSE)
    /\ late' = late
PlacesOver(o, t, row) ==
    /\ creating[o].tx = t /\ Unlocked(t)
    /\ db.txs[t] \in Row /\ db.txs[t].bk = owner[o] /\ ~db.txs[t].dup
    /\ row = [db.txs[t] EXCEPT !.gpid = o, !.resp = OrderResponse(o)]
    /\ late' = IF db.txs[t].status = "PENDING" THEN late ELSE late \cup {o}
LEMMA PlacedRow ==
    ASSUME TypeInv, NEW o \in Order, PersistOrder(o)
    PROVE  /\ owner[o] \in Booking
           /\ \E t \in TxId, row \in Row :
                /\ db' = [txs |-> [db.txs EXCEPT ![t] = row], booking |-> db.booking]
                /\ PlacesNew(o, t, row) \/ PlacesOver(o, t, row)
                /\ row.bk = owner[o] /\ row.gpid = o /\ row.resp = OrderResponse(o)
                /\ ~row.dup
<1> DEFINE b == owner[o]
<1>1. b \in Booking /\ OrderResponse(o) \in GatewayResponse
  BY DEF PersistOrder, TypeInv, TypeOK, ReceiptsKnown, OrderResponse, GatewayResponse
<1>2. db.booking \in [Booking -> BookingStatus] /\ db = [txs |-> db.txs, booking |-> db.booking]
  BY DEF TypeInv, TypeOK, Table
<1>3. CASE \E t \in TxId :
            /\ creating[o].tx = 0 /\ FreeRow(t)
            /\ db' = [db EXCEPT !.txs[t] = NewRow(b, "PENDING", o, OrderResponse(o), FALSE)]
            /\ UNCHANGED late
  <2> DEFINE row == NewRow(b, "PENDING", o, OrderResponse(o), FALSE)
  <2>1. PICK t \in TxId : FreeRow(t) /\ db' = [db EXCEPT !.txs[t] = row] /\ UNCHANGED late
    BY <1>3
  <2>2. row \in Row
    BY <1>1, NewRowType DEF TxStatus
  <2>3. row.bk = b /\ row.gpid = o /\ row.resp = OrderResponse(o) /\ ~row.dup
    BY DEF NewRow
  <2>4. PlacesNew(o, t, row)
    BY <2>1 DEF PlacesNew
  <2>5. db' = [txs |-> [db.txs EXCEPT ![t] = row], booking |-> db.booking]
    BY <1>2, <2>1
  <2> HIDE DEF row
  <2> QED
    BY <1>1, <2>2, <2>3, <2>4, <2>5
<1>4. CASE \E t \in TxId :
            /\ creating[o].tx = t /\ Unlocked(t)
            /\ db' = [db EXCEPT !.txs[t] = [@ EXCEPT !.gpid = o, !.resp = OrderResponse(o)]]
            /\ late' = IF db.txs[t].status = "PENDING" THEN late ELSE late \cup {o}
  <2>1. PICK t \in TxId :
            /\ creating[o].tx = t /\ Unlocked(t)
            /\ db' = [db EXCEPT !.txs[t] = [@ EXCEPT !.gpid = o, !.resp = OrderResponse(o)]]
            /\ late' = IF db.txs[t].status = "PENDING" THEN late ELSE late \cup {o}
    BY <1>4
  <2> DEFINE row == [db.txs[t] EXCEPT !.gpid = o, !.resp = OrderResponse(o)]
  <2>2. db.txs[t] # NoRow /\ db.txs[t].bk = b /\ ~db.txs[t].dup
    <3>1. t # 0
      BY BoundAssumption DEF TxId
    <3> QED
      BY <2>1, <3>1 DEF TypeInv, OrdersPlaced
  <2>3. db.txs[t] \in Row
    BY <2>2 DEF TypeInv, TypeOK, Table
  <2>4. row \in Row /\ row.bk = b /\ row.gpid = o /\ row.resp = OrderResponse(o) /\ ~row.dup
    BY <1>1, <2>2, <2>3 DEF Row
  <2>5. PlacesOver(o, t, row)
    BY <2>1, <2>2, <2>3 DEF PlacesOver
  <2>6. db' = [txs |-> [db.txs EXCEPT ![t] = row], booking |-> db.booking]
    BY <1>2, <2>1
  <2> HIDE DEF row
  <2> QED
    BY <1>1, <2>4, <2>5, <2>6
<1> QED
  BY <1>3, <1>4 DEF PersistOrder, StoreOrder

\* Storing an order.
LEMMA PersistOrderTypeInv ==
    ASSUME TypeInv, NEW o \in Order, PersistOrder(o)
    PROVE  TypeInv'
<1>1. PICK t \in TxId, row \in Row :
        /\ db' = [txs |-> [db.txs EXCEPT ![t] = row], booking |-> db.booking]
        /\ PlacesNew(o, t, row) \/ PlacesOver(o, t, row)
        /\ ~row.dup
  BY PlacedRow
<1>2. Replaces(t, row)
  BY <1>1, RowIsRow DEF Replaces, PlacesNew, PlacesOver, FreeRow, Row
<1>3. db.booking \in [Booking -> BookingStatus]
  BY DEF TypeInv, TypeOK, Table
<1>4. /\ db' \in Table
      /\ \A u \in TxId : db.txs[u] # NoRow => db'.txs[u] # NoRow
      /\ RefundFits'
  BY <1>1, <1>2, <1>3, WriteKeeps DEF PersistOrder
<1>5. \A q \in Order : creating'[q] = IF q = o THEN NoOrder ELSE creating[q]
  BY DEF PersistOrder, TypeInv, TypeOK
<1>6. OrdersPlaced'
  <2>1. \A u \in TxId : db'.txs[u] = IF u = t THEN row ELSE db.txs[u]
    BY <1>1 DEF TypeInv, TypeOK, Table
  <2>2. \A u \in TxId : db'.txs[u] # NoRow /\ db'.txs[u].status = "PENDING" => ~db'.txs[u].dup
    BY <1>1, <2>1 DEF TypeInv, OrdersPlaced
  <2>3. ASSUME NEW q \in Order, creating'[q].tx # 0
        PROVE  LET old == db'.txs[creating'[q].tx] IN
               old # NoRow /\ old.bk = owner'[q] /\ ~old.dup
    <3>1. creating'[q] = creating[q] /\ owner'[q] = owner[q]
      BY <1>5, <2>3 DEF NoOrder, PersistOrder
    <3>2. creating[q].tx \in TxId
      BY <2>3, <3>1 DEF Creation, TypeInv, TypeOK
    <3>3. LET old == db.txs[creating[q].tx] IN
          old # NoRow /\ old.bk = owner[q] /\ ~old.dup
      BY <2>3, <3>1 DEF TypeInv, OrdersPlaced
    <3> QED
      BY <1>1, <1>2, <2>1, <3>1, <3>2, <3>3, RowIsRow DEF Replaces
  <2> QED
    BY <2>2, <2>3 DEF OrdersPlaced
<1>7. NoOrder \in Creation
  BY DEF NoOrder, Creation
<1>8. late' \subseteq Order
  BY <1>1 DEF PlacesNew, PlacesOver, TypeInv, TypeOK
<1>9. TypeOK'
  BY <1>4, <1>7, <1>8 DEF PersistOrder, TypeInv, TypeOK
<1>10. RowsKept'
  BY <1>4 DEF PersistOrder, TypeInv, RowsKept
<1>11. ReceiptsKnown'
  <2>1. owner[o] # NoId
    BY DEF PersistOrder, TypeInv, ReceiptsKnown
  <2>2. late' \subseteq late \cup {o}
    BY <1>1 DEF PlacesNew, PlacesOver
  <2> QED
    BY <1>5, <2>1, <2>2 DEF PersistOrder, TypeInv, ReceiptsKnown, InCommit, OrderOf, NoOrder
<1> QED
  BY <1>4, <1>6, <1>9, <1>10, <1>11 DEF TypeInv

\* An order at the gateway.
LEMMA CreateOrderTypeInv ==
    ASSUME TypeInv, NEW b \in Booking, NEW o \in Order, CreateOrder(b, o)
    PROVE  TypeInv'
<1> USE DEF TypeInv, CreateOrder, ledger
<1>1. TypeOK'
  <2>1. creating' \in [Order -> Creation]
    BY DEF TypeOK, Creation
  <2> QED
    BY <2>1 DEF TypeOK
<1>2. RowsKept' /\ RefundFits'
  BY DEF RowsKept, RefundFits
<1>3. \A q \in Order : owner'[q] = IF q = o THEN b ELSE owner[q]
  BY DEF TypeOK
<1>6. \A q \in Order : /\ creating'[q].tx = creating[q].tx
                       /\ creating'[q].pc = IF q = o THEN "created" ELSE creating[q].pc
  BY DEF TypeOK, Creation
<1>7. OrdersPlaced'
  <2>1. creating[o].tx = 0
    <3>1. SUFFICES ASSUME creating[o].tx # 0 PROVE FALSE
      OBVIOUS
    <3>2. db.txs[creating[o].tx] # NoRow /\ db.txs[creating[o].tx].bk = NoId
      BY <3>1 DEF OrdersPlaced
    <3>3. db.txs[creating[o].tx] \in Row
      BY <3>1, <3>2 DEF TypeOK, Table, Creation
    <3> QED
      BY <3>2, <3>3, IdAssumption DEF Row
  <2> QED
    BY <1>3, <1>6, <2>1 DEF OrdersPlaced
<1>4. b # NoId
  BY IdAssumption
<1>5. ReceiptsKnown'
  <2>1. \A q \in Order : owner[q] # NoId => owner'[q] # NoId
    BY <1>3
  <2>2. \A p \in Payment : gw[p].ord # NoId => gw[p].ord \in Order
    BY DEF TypeOK, GatewayPayment
  <2> QED
    BY <1>3, <1>4, <1>6, <2>1, <2>2 DEF ReceiptsKnown, TypeOK, InCommit, OrderOf
<1> QED
  BY <1>1, <1>2, <1>5, <1>7

\* The gateway accepts a refund: its own books stay within the payment.
LEMMA RefundAtGatewayType ==
    ASSUME TypeOK, NEW p \in Payment, NEW amt \in 1 .. Total, RefundAtGateway(p, amt)
    PROVE  /\ gw' \in [Payment -> GatewayPayment]
           /\ \A q \in Payment : gw'[q].ord = gw[q].ord
<1>1. gw[p] \in GatewayPayment /\ gw \in [Payment -> GatewayPayment]
  BY DEF TypeOK
<1> DEFINE sum == gw[p].refunded + amt
           new == [gw[p] EXCEPT !.refunded = sum, !.cums = @ \cup {sum}]
<1>2. sum \in 1 .. Total
  BY <1>1, BoundAssumption DEF RefundAtGateway, GatewayPayment
<1>3. new \in GatewayPayment /\ new.ord = gw[p].ord
  <2>1. gw[p].cums \cup {sum} \in SUBSET (1 .. Total) /\ sum \in 0 .. Total
    BY <1>1, <1>2 DEF GatewayPayment
  <2> HIDE DEF sum
  <2> QED
    BY <1>1, <2>1 DEF GatewayPayment
<1>4. gw' = [gw EXCEPT ![p] = new]
  BY <1>1 DEF RefundAtGateway, GatewayPayment
<1> HIDE DEF new
<1> QED
  BY <1>1, <1>3, <1>4

\* The refund endpoint, up to the gateway's answer.
LEMMA RefundCallTypeInv ==
    ASSUME TypeInv, NEW t \in TxId, NEW amt \in 1 .. Total, RefundCall(t, amt)
    PROVE  TypeInv'
<1> DEFINE row == db.txs[t]
<1>1. row # NoRow /\ row \in Row
  BY DEF RefundCall, Refundable, NoRow, TypeInv, TypeOK, Table
<1>2. row.gpid \in Payment /\ RefundAtGateway(row.gpid, amt)
  BY DEF RefundCall
<1>3. gw' \in [Payment -> GatewayPayment] /\ \A q \in Payment : gw'[q].ord = gw[q].ord
  BY <1>2, RefundAtGatewayType DEF TypeInv
<1>4. amt \in 0 .. Total /\ row.refunded + amt <= Total
  BY <1>1, BoundAssumption DEF RefundCall, Row
<1>5. TypeOK'
  BY <1>3, <1>4 DEF RefundCall, ledger, TypeInv, TypeOK
<1>6. RowsKept' /\ OrdersPlaced'
  BY DEF RefundCall, ledger, TypeInv, RowsKept, OrdersPlaced
<1>7. RefundFits'
  <2>1. \A u \in TxId : refunding'[u] = IF u = t THEN amt ELSE refunding[u]
    BY DEF RefundCall, TypeInv, TypeOK
  <2> QED
    BY <1>1, <1>4, <2>1 DEF RefundCall, ledger, TypeInv, RefundFits
<1>8. ReceiptsKnown'
  <2>1. \A v \in Worker : InCommit(v)' => req[v].ev.pay \in Payment
    BY DEF RefundCall, TypeInv, TypeOK, InCommit, Request, Idle, Event
  <2> QED
    BY <1>3, <2>1 DEF RefundCall, TypeInv, ReceiptsKnown, InCommit, OrderOf
<1> QED
  BY <1>5, <1>6, <1>7, <1>8 DEF TypeInv

\* The refund endpoint, from the answer on.
LEMMA RefundCommitTypeInv ==
    ASSUME TypeInv, NEW t \in TxId, RefundCommit(t)
    PROVE  TypeInv'
<1> DEFINE old == db.txs[t]  total == old.refunded + refunding[t]  full == (total >= Total)
           base == RefundedRow(old, full)
           row == [base EXCEPT !.refunded = total]
           booking == IF full THEN [db.booking EXCEPT ![old.bk] = "CANCELLED"] ELSE db.booking
<1>1. refunding[t] \in 0 .. Total /\ refunding[t] # 0 /\ total <= Total /\ old # NoRow
  BY DEF RefundCommit, TypeInv, TypeOK, RefundFits
<1>2. old \in Row
  BY <1>1 DEF TypeInv, TypeOK, Table
<1>3. base \in Row
  <2>1. full \in BOOLEAN
    OBVIOUS
  <2> HIDE DEF old, full
  <2> QED
    BY <1>2, <2>1, RefundedRowType
<1>4. total \in 0 .. Total
  BY <1>1, <1>2, BoundAssumption DEF Row
<1>5. row \in Row
  <2> HIDE DEF base, total
  <2> QED
    BY <1>3, <1>4 DEF Row
<1>6. booking \in [Booking -> BookingStatus]
  BY DEF TypeInv, TypeOK, Table, BookingStatus
<1>7. db' = [txs |-> [db.txs EXCEPT ![t] = row], booking |-> booking]
  BY DEF RefundCommit
<1> HIDE DEF row, booking
<1>8. db' \in Table
  BY <1>5, <1>6, <1>7 DEF TypeInv, TypeOK, Table
<1>9. \A u \in TxId : /\ db'.txs[u] = IF u = t THEN row ELSE db.txs[u]
                      /\ refunding'[u] = IF u = t THEN 0 ELSE refunding[u]
  <2>1. refunding' = [refunding EXCEPT ![t] = 0]
    BY DEF RefundCommit
  <2> QED
    BY <1>7, <2>1 DEF TypeInv, TypeOK, Table
<1>10. row # NoRow
  BY <1>5, RowIsRow
<1>11. TypeOK'
  <2>1. /\ refunding' = [refunding EXCEPT ![t] = 0]
        /\ UNCHANGED <<recorded, acked, req, seen, creating, late, unchecked, jobs,
                       fulfilled, crashes, gateway>>
        /\ stale' \subseteq Worker
    BY DEF RefundCommit, Stale
  <2> QED
    BY <1>8, <2>1, BoundAssumption DEF gateway, TypeInv, TypeOK
<1>12. RowsKept' /\ RefundFits'
  BY <1>9, <1>10 DEF RefundCommit, TypeInv, RowsKept, RefundFits
<1>13. ReceiptsKnown'
  BY DEF RefundCommit, gateway, TypeInv, ReceiptsKnown, InCommit, OrderOf
<1>14. OrdersPlaced'
  <2>1. row.bk = old.bk /\ row.dup = old.dup /\ row.status # "PENDING"
    BY <1>2 DEF row, RefundedRow, Row
  <2>2. ASSUME NEW o \in Order, creating[o].tx # 0
        PROVE  LET cur == db'.txs[creating[o].tx] IN
               cur # NoRow /\ cur.bk = owner[o] /\ ~cur.dup
    <3>1. creating[o].tx \in TxId
      BY <2>2 DEF Creation, TypeInv, TypeOK
    <3>2. LET cur == db.txs[creating[o].tx] IN
          cur # NoRow /\ cur.bk = owner[o] /\ ~cur.dup
      BY <2>2 DEF TypeInv, OrdersPlaced
    <3> QED
      BY <1>9, <1>10, <2>1, <3>1, <3>2
  <2>3. \A u \in TxId : db'.txs[u] # NoRow /\ db'.txs[u].status = "PENDING" => ~db'.txs[u].dup
    BY <1>9, <2>1 DEF TypeInv, OrdersPlaced
  <2>4. creating' = creating /\ owner' = owner
    BY DEF RefundCommit, gateway
  <2> QED
    BY <2>2, <2>3, <2>4 DEF OrdersPlaced
<1> QED
  BY <1>11, <1>12, <1>13, <1>14 DEF TypeInv

\* A full refund that is not committed.
LEMMA RefundLostTypeInv ==
    ASSUME TypeInv, NEW t \in TxId, RefundLost(t)
    PROVE  TypeInv'
<1> USE DEF TypeInv, RefundLost, ledger, gateway
<1>1. TypeOK'
  BY BoundAssumption DEF TypeOK
<1>2. RowsKept' /\ OrdersPlaced' /\ ReceiptsKnown'
  BY DEF RowsKept, OrdersPlaced, ReceiptsKnown, InCommit, OrderOf
<1>3. RefundFits'
  BY DEF RefundFits, TypeOK
<1> QED
  BY <1>1, <1>2, <1>3

\* A fulfilment thread ends.
LEMMA FulfilTypeInv ==
    ASSUME TypeInv, NEW t \in TxId, Fulfil(t)
    PROVE  TypeInv'
<1> USE DEF TypeInv, Fulfil, ledger, gateway
<1>1. PICK end \in {"sent", "unsent", "unstored"} : fulfilled' = [fulfilled EXCEPT ![t] = end]
  BY OutcomeAssumption
<1>2. TypeOK'
  BY <1>1 DEF TypeOK, Fulfilment
<1>3. RowsKept' /\ OrdersPlaced' /\ RefundFits' /\ ReceiptsKnown'
  BY DEF RowsKept, OrdersPlaced, RefundFits, ReceiptsKnown, InCommit, OrderOf
<1> QED
  BY <1>2, <1>3

\* A crash empties the sessions.
LEMMA CrashTypeInv == TypeInv /\ Crash => TypeInv'
<1> SUFFICES ASSUME TypeInv, Crash PROVE TypeInv'
  OBVIOUS
<1> USE DEF TypeInv, Crash, ledger, gateway
<1>1. Idle \in Request /\ Idle.pc # "commit"
  BY DEF Idle, Request
<1>2. Blank \in Table
  BY DEF Blank, Table, BookingStatus
<1>6. NoOrder \in Creation
  BY DEF NoOrder, Creation
<1>3. TypeOK'
  BY <1>1, <1>2, <1>6, BoundAssumption DEF TypeOK
<1>4. RowsKept' /\ RefundFits' /\ OrdersPlaced'
  BY DEF RowsKept, RefundFits, OrdersPlaced, Blank, NoOrder
<1>5. ReceiptsKnown'
  BY <1>1 DEF ReceiptsKnown, InCommit, OrderOf, NoOrder
<1> QED
  BY <1>3, <1>4, <1>5

\* A customer's attempt gives its payment an order with a receipt.
LEMMA AttemptTypeInv ==
    ASSUME TypeInv, NEW p \in Payment, NEW o \in Order,
           NEW st \in {"authorized", "failed"}, Attempt(p, o, st)
    PROVE  TypeInv'
<1> DEFINE new == [gw[p] EXCEPT !.ord = o, !.st = st]
<1>1. gw' = [gw EXCEPT ![p] = new] /\ gw[p].ord = NoId /\ o \in offered
      /\ UNCHANGED <<ledger, server, owner, offered>>
  BY DEF Attempt
<1>2. new \in GatewayPayment /\ new.ord = o
  BY DEF TypeInv, TypeOK, GatewayPayment
<1> HIDE DEF new
<1>3. \A q \in Payment : gw'[q] = IF q = p THEN new ELSE gw[q]
  BY <1>1 DEF TypeInv, TypeOK
<1>4. TypeOK'
  BY <1>1, <1>2 DEF ledger, server, TypeInv, TypeOK
<1>5. RowsKept' /\ RefundFits' /\ OrdersPlaced'
  BY <1>1 DEF ledger, server, TypeInv, RowsKept, RefundFits, OrdersPlaced
<1>6. ReceiptsKnown'
  <2>1. \A v \in Worker : InCommit(v) => req[v].ev.pay \in Payment
    BY DEF TypeInv, TypeOK, InCommit, Request, Idle, Event
  <2>2. o # NoId
    BY IdAssumption
  <2> QED
    BY <1>1, <1>2, <1>3, <2>1, <2>2
    DEF ledger, server, TypeInv, ReceiptsKnown, InCommit, OrderOf
<1> QED
  BY <1>4, <1>5, <1>6 DEF TypeInv

\* A capture or a refund at the gateway moves no payment to another order.
LEMMA GatewayTypeInv ==
    ASSUME TypeInv, gw' \in [Payment -> GatewayPayment],
           \A q \in Payment : gw'[q].ord = gw[q].ord,
           UNCHANGED <<ledger, server, owner, offered>>
    PROVE  TypeInv'
<1> USE DEF ledger, server
<1>1. TypeOK'
  BY DEF TypeInv, TypeOK
<1>2. RowsKept' /\ RefundFits' /\ OrdersPlaced'
  BY DEF TypeInv, RowsKept, RefundFits, OrdersPlaced
<1>3. ReceiptsKnown'
  <2>1. \A v \in Worker : InCommit(v) => req[v].ev.pay \in Payment
    BY DEF TypeInv, TypeOK, InCommit, Request, Idle, Event
  <2> QED
    BY <2>1 DEF TypeInv, ReceiptsKnown, InCommit, OrderOf
<1> QED
  BY <1>1, <1>2, <1>3 DEF TypeInv

\* A capture at the gateway.
LEMMA CaptureTypeInv ==
    ASSUME TypeInv, NEW p \in Payment, Capture(p)
    PROVE  TypeInv'
<1> DEFINE new == [gw[p] EXCEPT !.st = "captured"]
<1>1. new \in GatewayPayment /\ new.ord = gw[p].ord
  BY DEF TypeInv, TypeOK, GatewayPayment
<1>2. gw' = [gw EXCEPT ![p] = new]
  BY DEF Capture
<1> HIDE DEF new
<1>3. gw' \in [Payment -> GatewayPayment] /\ \A q \in Payment : gw'[q].ord = gw[q].ord
  BY <1>1, <1>2 DEF TypeInv, TypeOK
<1> QED
  BY <1>3, GatewayTypeInv DEF Capture

-----------------------------------------------------------------------------

\* Every step keeps TypeInv.
LEMMA NextTypeInv == TypeInv /\ [Next]_vars => TypeInv'
<1> SUFFICES ASSUME TypeInv, [Next]_vars PROVE TypeInv'
  OBVIOUS
<1>1. CASE \E e \in Event : Deliver(e)
  BY <1>1, BeginTypeInv DEF Deliver
<1>2. CASE \E w \in Worker : Finish(w) \/ Dispatch(w)
  BY <1>2, FinishTypeInv, DispatchTypeInv
<1>3. CASE \E e \in Event : AckDuplicate(e)
  BY <1>3 DEF AckDuplicate, ledger, gateway, TypeInv, TypeOK, RowsKept, RefundFits,
              OrdersPlaced, ReceiptsKnown, InCommit, OrderOf
<1>4. CASE \E b \in Booking, o \in Order : CreateOrder(b, o)
  BY <1>4, CreateOrderTypeInv
<1>5. CASE \E o \in Order : ChooseRow(o) \/ PersistOrder(o)
  BY <1>5, ChooseRowTypeInv, PersistOrderTypeInv
<1>6. CASE \E t \in TxId : Fulfil(t)
  BY <1>6, FulfilTypeInv
<1>7. CASE \E p \in Payment, o \in Order, st \in {"authorized", "failed"} : Attempt(p, o, st)
  BY <1>7, AttemptTypeInv
<1>8. CASE \E p \in Payment : Capture(p)
  BY <1>8, CaptureTypeInv
<1>9. CASE Crash
  BY <1>9, CrashTypeInv
<1>10. CASE \E t \in TxId, amt \in 1 .. Total : RefundCall(t, amt)
  BY <1>10, RefundCallTypeInv
<1>11. CASE \E t \in TxId : RefundCommit(t) \/ RefundLost(t)
  BY <1>11, RefundCommitTypeInv, RefundLostTypeInv
<1>12. CASE \E p \in Payment, amt \in 1 .. Total : DashboardRefund(p, amt)
  <2>1. PICK p \in Payment, amt \in 1 .. Total : DashboardRefund(p, amt)
    BY <1>12
  <2>2. RefundAtGateway(p, amt) /\ UNCHANGED <<ledger, server, owner, offered>>
    BY <2>1 DEF DashboardRefund
  <2>3. gw' \in [Payment -> GatewayPayment] /\ \A q \in Payment : gw'[q].ord = gw[q].ord
    BY <2>2, RefundAtGatewayType DEF TypeInv
  <2> QED
    BY <2>2, <2>3, GatewayTypeInv
<1>13. CASE UNCHANGED vars
  BY <1>13 DEF vars, TypeInv, TypeOK, RowsKept, RefundFits, OrdersPlaced,
               ReceiptsKnown, InCommit, OrderOf
<1> QED
  BY <1>1, <1>2, <1>3, <1>4, <1>5, <1>6, <1>7, <1>8, <1>9, <1>10, <1>11, <1>12, <1>13
  DEF Next, PayNext, RefundNext

\* Whatever messages, refunds and crashes interleave, the ledger holds rows of
\* the declared shape, no refund exceeds its payment, and no session decides on
\* a row that is gone.
THEOREM TypeInvariant == Spec => []TypeInv
BY InitTypeInv, NextTypeInv, PTL DEF Spec

\* The type invariant of the runs.
THEOREM TypeCorrect == Spec => []TypeOK
<1>1. TypeInv => TypeOK
  BY DEF TypeInv
<1> QED
  BY <1>1, TypeInvariant, PTL

\* A refund the gateway accepted never exceeds the balance of its row, because
\* only the request that holds the row lock adds Refund rows.
THEOREM RefundInFlightFits == Spec => []RefundFits
<1>1. TypeInv => RefundFits
  BY DEF TypeInv
<1> QED
  BY <1>1, TypeInvariant, PTL

-----------------------------------------------------------------------------
(* Safety of the rows, when every message names its booking.  The advisory  *)
(* lock then admits one request per booking, so the rows of a booking can   *)
(* only change under a request's feet in ways it does not mind: refunds and *)
(* stored orders.                                                          *)

\* What SettledOnlyRefunded says of one step.
SettledStays ==
    \A t \in Rows : db.txs[t].status = "SUCCESSFUL" => db'.txs[t].status \in Settled

\* Changes a request does not mind: the row keeps its booking and invoices, and
\* does not become SUCCESSFUL.
Steady(t) ==
    /\ db'.txs[t].bk = db.txs[t].bk
    /\ db'.txs[t].status = "SUCCESSFUL" => db.txs[t].status = "SUCCESSFUL"
    /\ db'.txs[t].invoices = db.txs[t].invoices

\* The invariant survives a step that leaves every row steady but those of
\* bookings no request still holds.
LEMMA StepKeepsRows ==
    ASSUME TypeInv, RowInv, NEW Released, OneInvoice',
           \A v \in Worker : InCommit(v)' =>
               /\ InCommit(v) /\ req'[v] = req[v] /\ seen'[v] = seen[v]
               /\ req[v].ev.ref \notin Released,
           \A t \in Rows : Steady(t) \/ db.txs[t].bk \in Released
    PROVE  RowInv'
<1>1. OnePerBooking' /\ BookingNamed'
  BY DEF RowInv, OnePerBooking, BookingNamed
<1>2. SnapshotFresh'
  BY DEF RowInv, SnapshotFresh, TypeInv, RowsKept, Rows, Steady
<1> QED
  BY <1>1, <1>2 DEF RowInv

\* The end of a request that writes one row of its booking, or a new one.
LEMMA WrittenKeepsRows ==
    ASSUME TypeInv, RowInv, NEW w \in Worker, InCommit(w), NEW r, r.pc # "commit",
           req' = [req EXCEPT ![w] = r], seen' = [seen EXCEPT ![w] = Blank],
           NEW t \in TxId, NEW row, row.invoices <= 1,
           db'.txs = [db.txs EXCEPT ![t] = row],
           \/ db.txs[t] = NoRow
           \/ /\ db.txs[t].bk = req[w].ev.ref
              /\ db.txs[t].status = "SUCCESSFUL" => row.status \in Settled
    PROVE  RowInv' /\ SettledStays
<1>1. \A u \in TxId : db'.txs[u] = IF u = t THEN row ELSE db.txs[u]
  BY DEF TypeInv, TypeOK, Table
<1>2. \A v \in Worker : InCommit(v)' =>
          InCommit(v) /\ v # w /\ req'[v] = req[v] /\ seen'[v] = seen[v]
  BY DEF InCommit, TypeInv, TypeOK
<1>3. \A v \in Worker : InCommit(v)' => req[v].ev.ref \notin {req[w].ev.ref}
  BY <1>2 DEF RowInv, OnePerBooking
<1>4. \A u \in Rows : Steady(u) \/ db.txs[u].bk \in {req[w].ev.ref}
  BY <1>1 DEF Rows, Steady
<1>5. OneInvoice'
  BY <1>1 DEF OneInvoice, Rows, RowInv
<1>6. SettledStays
  BY <1>1 DEF SettledStays, Rows, Settled
<1> QED
  BY <1>2, <1>3, <1>4, <1>5, <1>6, StepKeepsRows

\* A step that takes no request and leaves every row steady.
LEMMA SteadyKeepsRows ==
    ASSUME TypeInv, RowInv, OneInvoice', \A u \in Rows : Steady(u),
           \A v \in Worker : InCommit(v)' =>
               InCommit(v) /\ req'[v] = req[v] /\ seen'[v] = seen[v]
    PROVE  RowInv'
<1> DEFINE Released == {}
<1>1. \A v \in Worker : InCommit(v)' =>
          /\ InCommit(v) /\ req'[v] = req[v] /\ seen'[v] = seen[v]
          /\ req[v].ev.ref \notin Released
  OBVIOUS
<1>2. \A u \in Rows : Steady(u) \/ db.txs[u].bk \in Released
  OBVIOUS
<1> HIDE DEF Released
<1> QED
  BY <1>1, <1>2, StepKeepsRows

\* A step that writes no row and takes no request.
LEMMA UnwrittenKeepsRows ==
    ASSUME TypeInv, RowInv, db'.txs = db.txs,
           \A v \in Worker : InCommit(v)' =>
               InCommit(v) /\ req'[v] = req[v] /\ seen'[v] = seen[v]
    PROVE  RowInv' /\ SettledStays
<1>1. \A u \in Rows : Steady(u)
  BY DEF Steady
<1>2. OneInvoice'
  BY DEF OneInvoice, Rows, RowInv
<1>3. SettledStays
  BY DEF SettledStays, Settled
<1> QED
  BY <1>1, <1>2, <1>3, SteadyKeepsRows

\* What a request that finishes may rely on: the resolved row is of its booking,
\* has the invoices it saw, and is SUCCESSFUL only if it saw it so.
LEMMA Fresh ==
    ASSUME TypeInv, RowInv, NEW w \in Worker, InCommit(w),
           NEW asked \in BOOLEAN, NEW t \in Resolved(seen[w], req[w].ev, asked)
    PROVE  /\ req[w].ev.ref \in Booking
           /\ \A b \in ResolvedBooking(seen[w], req[w].ev, t) : b = req[w].ev.ref
           /\ t # 0 => /\ seen[w].txs[t].bk = req[w].ev.ref
                       /\ db.txs[t].bk = req[w].ev.ref
                       /\ db.txs[t].status = "SUCCESSFUL"
                              => seen[w].txs[t].status = "SUCCESSFUL"
                       /\ db.txs[t].invoices = seen[w].txs[t].invoices
                       /\ db.txs[t].invoices <= 1
<1>1. req[w].ev \in Event /\ seen[w] \in Table
      /\ (t # 0 => t \in TxId /\ seen[w].txs[t] \in Row /\ db.txs[t] \in Row)
  BY Handling
<1>2. req[w].ev.ref \in Booking /\ req[w].ev.ref # NoId
  BY IdAssumption DEF RowInv, BookingNamed
<1>3. \A b \in ResolvedBooking(seen[w], req[w].ev, t) : b = req[w].ev.ref
  BY <1>1, <1>2, ResolvedBookingType
<1>4. t # 0 => seen[w].txs[t].bk = req[w].ev.ref
  BY <1>1, <1>2, ResolvedRow
<1>5. t # 0 => db.txs[t] # NoRow /\ seen[w].txs[t] # NoRow
  BY <1>1, RowIsRow
<1>6. t # 0 => db.txs[t].invoices <= 1
  BY <1>1, <1>5 DEF RowInv, OneInvoice, Rows
<1> QED
  BY <1>1, <1>2, <1>3, <1>4, <1>5, <1>6 DEF RowInv, SnapshotFresh

\* A handler that commits one row of its booking, invoices untouched.
LEMMA WriteRowKeepsRows ==
    ASSUME TypeInv, RowInv, NEW w \in Worker, InCommit(w),
           NEW asked \in BOOLEAN, NEW t \in Resolved(seen[w], req[w].ev, asked), t # 0,
           NEW row \in Row, row.invoices = seen[w].txs[t].invoices,
           seen[w].txs[t].status = "SUCCESSFUL" => row.status \in Settled,
           NEW booking, NEW B,
           Commit(w, req[w].ev, WriteRow(seen[w], t, row), booking, B)
    PROVE  RowInv' /\ SettledStays
<1> DEFINE cur == db.txs[t]  old == seen[w].txs[t]  upd == Update(cur, old, row)
<1>1. t \in TxId /\ cur \in Row /\ old \in Row
  BY Handling
<1>2. /\ cur.bk = req[w].ev.ref
      /\ cur.status = "SUCCESSFUL" => old.status = "SUCCESSFUL"
      /\ cur.invoices <= 1 /\ cur.invoices \in Nat /\ old.invoices \in Nat
  BY <1>1, Fresh DEF Row
<1>3. upd.invoices = cur.invoices + (row.invoices - old.invoices)
      /\ upd.status = Column(cur.status, old.status, row.status)
  BY <1>1, <1>2, UpdateRow
<1>4. upd.invoices <= 1
  BY <1>2, <1>3
<1>5. cur.status = "SUCCESSFUL" => upd.status \in Settled
  BY <1>2, <1>3 DEF Column, Settled
<1>6. /\ db'.txs = [db.txs EXCEPT ![t] = upd]
      /\ req' = [req EXCEPT ![w] = Idle] /\ seen' = [seen EXCEPT ![w] = Blank]
  BY DEF Commit, Return, WriteRow
<1>7. Idle.pc # "commit"
  BY DEF Idle
<1> HIDE DEF upd
<1> QED
  BY <1>1, <1>2, <1>4, <1>5, <1>6, <1>7, WrittenKeepsRows

\* A request that ends without writing a row.
LEMMA ReturnKeepsRows ==
    ASSUME TypeInv, RowInv, NEW w \in Worker, Return(w), db'.txs = db.txs
    PROVE  RowInv' /\ SettledStays
<1>1. Idle.pc # "commit"
  BY DEF Idle
<1>2. \A v \in Worker : InCommit(v)' =>
          InCommit(v) /\ req'[v] = req[v] /\ seen'[v] = seen[v]
  BY <1>1 DEF Return, InCommit, TypeInv, TypeOK
<1> QED
  BY <1>2, UnwrittenKeepsRows

\* Confirming a resolved row adds an invoice only if the row still has none.
LEMMA ConfirmKeepsRows ==
    ASSUME TypeInv, RowInv, NEW w \in Worker, InCommit(w),
           NEW asked \in BOOLEAN, NEW t \in Resolved(seen[w], req[w].ev, asked),
           NEW b \in ResolvedBooking(seen[w], req[w].ev, t),
           FinishConfirm(w, seen[w], req[w].ev, t, b)
    PROVE  RowInv' /\ SettledStays
<1> DEFINE e == req[w].ev  cur == db.txs[t]  old == seen[w].txs[t]
           row == SettledRow(old, e, b)  upd == Update(cur, old, row)
           r == [pc |-> "dispatch", ev |-> e, tx |-> t]
<1>1. e \in Event /\ OrderOf(e) # NoId /\ t # 0 /\ t \in TxId /\ cur \in Row /\ old \in Row
      /\ seen[w] \in Table
  BY Handling DEF FinishConfirm
<1>2. /\ b \in Booking
      /\ cur.bk = e.ref
      /\ cur.status = "SUCCESSFUL" => old.status = "SUCCESSFUL"
      /\ cur.invoices = old.invoices /\ cur.invoices <= 1 /\ cur.invoices \in Nat
  BY <1>1, Fresh DEF Row
<1>3. MergedResponse(old.resp, e) \in GatewayResponse /\ e.pay \in Payment
  BY <1>1, EventIds DEF TypeInv, Row
<1>4. /\ row \in Row /\ row.status = "SUCCESSFUL"
      /\ row.invoices = IF old.invoices = 0 THEN 1 ELSE old.invoices
  <2> HIDE DEF e, old
  <2> QED
    BY <1>1, <1>2, <1>3, SettledRowType
<1> HIDE DEF row
<1>5. /\ upd.invoices = cur.invoices + (row.invoices - old.invoices)
      /\ upd.status = Column(cur.status, old.status, row.status)
  BY <1>1, <1>2, <1>4, UpdateRow
<1>6. upd.invoices <= 1 /\ (cur.status = "SUCCESSFUL" => upd.status \in Settled)
  BY <1>2, <1>4, <1>5 DEF Column, Settled
<1>7. /\ db'.txs = [db.txs EXCEPT ![t] = upd]
      /\ req' = [req EXCEPT ![w] = r] /\ seen' = [seen EXCEPT ![w] = Blank]
  BY DEF FinishConfirm, Confirmed, row
<1>8. r.pc # "commit"
  OBVIOUS
<1> HIDE DEF upd, r
<1> QED
  BY <1>1, <1>2, <1>6, <1>7, <1>8, WrittenKeepsRows

\* A PAY-REC row gets the first and only invoice.
LEMMA ConfirmUnmatchedKeepsRows ==
    ASSUME TypeInv, RowInv, NEW w \in Worker, InCommit(w),
           NEW asked, NEW t, NEW b,
           FinishConfirmUnmatched(w, seen[w], req[w].ev, t, b, asked)
    PROVE  RowInv' /\ SettledStays
<1> DEFINE e == req[w].ev
           new == NewRow(b, "PENDING", OrderOf(e), RawResponse(e), FALSE)
           row == SettledRow(new, e, b)
<1>1. PICK n \in TxId : FreeRow(n) /\ Confirmed(w, e, n, b, row)
  BY DEF FinishConfirmUnmatched
<1> DEFINE r == [pc |-> "dispatch", ev |-> e, tx |-> n]
<1>2. row.invoices <= 1
  BY DEF SettledRow, NewRow
<1>3. /\ db'.txs = [db.txs EXCEPT ![n] = row] /\ db.txs[n] = NoRow
      /\ req' = [req EXCEPT ![w] = r] /\ seen' = [seen EXCEPT ![w] = Blank]
  BY <1>1 DEF Confirmed, FreeRow
<1>4. r.pc # "commit"
  OBVIOUS
<1> HIDE DEF row, r
<1> QED
  BY <1>2, <1>3, <1>4, WrittenKeepsRows

\* A PAY-DUP row has no invoice.
LEMMA DuplicateKeepsRows ==
    ASSUME TypeInv, RowInv, NEW w \in Worker, InCommit(w),
           NEW asked, NEW t, NEW b,
           FinishDuplicate(w, seen[w], req[w].ev, t, b, asked)
    PROVE  RowInv' /\ SettledStays
<1> DEFINE e == req[w].ev
           row == NewRow(b, "SUCCESSFUL", e.pay, RawResponse(e), TRUE)
<1>1. PICK n \in TxId : FreeRow(n) /\ db' = [db EXCEPT !.txs[n] = row]
  BY DEF FinishDuplicate
<1>2. row.invoices <= 1
  BY DEF NewRow
<1> HIDE DEF row
<1>3. db'.txs = [db.txs EXCEPT ![n] = row] /\ db.txs[n] = NoRow
  BY <1>1 DEF FreeRow, TypeInv, TypeOK, Table
<1>4. req' = [req EXCEPT ![w] = Idle] /\ seen' = [seen EXCEPT ![w] = Blank]
  BY DEF FinishDuplicate, Return
<1>5. Idle.pc # "commit"
  BY DEF Idle
<1> QED
  BY <1>2, <1>3, <1>4, <1>5, WrittenKeepsRows

\* An authorization touches no row its session saw settled.
LEMMA AuthorizedKeepsRows ==
    ASSUME TypeInv, RowInv, NEW w \in Worker, InCommit(w),
           NEW asked \in BOOLEAN, NEW t \in Resolved(seen[w], req[w].ev, asked), NEW b,
           FinishAuthorized(w, seen[w], req[w].ev, t, b)
    PROVE  RowInv' /\ SettledStays
<1> DEFINE old == seen[w].txs[t]  e == req[w].ev
           row == [old EXCEPT !.status = "PROCESSING", !.gpid = e.pay, !.resp = RawResponse(e)]
<1>1. e \in Event /\ OrderOf(e) # NoId
  BY Handling
<1>2. CASE t # 0 /\ old.status = "PENDING"
  <2>1. old \in Row
    BY <1>2, Handling
  <2>2. e.pay \in Payment /\ RawResponse(e) \in GatewayResponse
    BY <1>1, EventIds DEF TypeInv
  <2>3. /\ row \in Row /\ row.invoices = old.invoices
        /\ row.bk = old.bk /\ row.status # "PENDING"
    BY <2>1, <2>2 DEF Row, TxStatus
  <2>4. Commit(w, e, WriteRow(seen[w], t, row), db.booking, {b})
    BY <1>2 DEF FinishAuthorized
  <2> HIDE DEF row
  <2> QED
    BY <1>2, <2>3, <2>4, WriteRowKeepsRows
<1>3. CASE ~(t # 0 /\ old.status = "PENDING")
  BY <1>3, ReturnKeepsRows DEF FinishAuthorized, Commit
<1> QED
  BY <1>2, <1>3

\* A failed attempt touches no row its session saw settled.
LEMMA FailedKeepsRows ==
    ASSUME TypeInv, RowInv, NEW w \in Worker, InCommit(w),
           NEW asked \in BOOLEAN, NEW t \in Resolved(seen[w], req[w].ev, asked),
           FinishFailed(w, seen[w], req[w].ev, t)
    PROVE  RowInv' /\ SettledStays
<1> DEFINE old == seen[w].txs[t]  e == req[w].ev
           row == [old EXCEPT !.status = "FAILED", !.resp = RawResponse(e)]
<1>1. e \in Event /\ OrderOf(e) # NoId /\ t # 0
  BY Handling DEF FinishFailed
<1>2. CASE old.status # "SUCCESSFUL"
  <2>1. old \in Row
    BY <1>1, Handling
  <2>2. RawResponse(e) \in GatewayResponse
    BY <1>1, EventIds DEF TypeInv
  <2>3. /\ row \in Row /\ row.invoices = old.invoices
        /\ row.bk = old.bk /\ row.status # "PENDING"
    BY <2>1, <2>2 DEF Row, TxStatus
  <2>4. Commit(w, e, WriteRow(seen[w], t, row), db.booking, {})
    BY <1>2 DEF FinishFailed
  <2> HIDE DEF row
  <2> QED
    BY <1>1, <1>2, <2>3, <2>4, WriteRowKeepsRows
<1>3. CASE old.status = "SUCCESSFUL"
  BY <1>3, ReturnKeepsRows DEF FinishFailed, Commit
<1> QED
  BY <1>2, <1>3

\* A refund event leaves a settled row settled.
LEMMA RefundKeepsRows ==
    ASSUME TypeInv, RowInv, NEW w \in Worker, InCommit(w),
           NEW asked \in BOOLEAN, NEW t \in Resolved(seen[w], req[w].ev, asked), NEW b,
           FinishRefund(w, seen[w], req[w].ev, t, b)
    PROVE  RowInv' /\ SettledStays
<1> DEFINE old == seen[w].txs[t]  e == req[w].ev  full == (e.cum = Total)
           row == RefundedRow(old, full)
           booking == IF full THEN SetBooking(b, "CANCELLED") ELSE db.booking
<1>1. t # 0 /\ old \in Row
  BY Handling DEF FinishRefund
<1>2. row \in Row /\ row.invoices = old.invoices /\ row.status \in Settled
  <2> HIDE DEF old
  <2> QED
    BY <1>1, RefundedRowType DEF Settled
<1>3. Commit(w, e, WriteRow(seen[w], t, row), booking, IF full THEN {b} ELSE {})
  BY DEF FinishRefund
<1> HIDE DEF row, booking
<1> QED
  BY <1>1, <1>2, <1>3, WriteRowKeepsRows

\* Every outcome of a request.
LEMMA FinishKeepsRows ==
    ASSUME TypeInv, RowInv, NEW w \in Worker, Finish(w)
    PROVE  RowInv' /\ SettledStays
<1> DEFINE s == seen[w]  e == req[w].ev
<1>1. InCommit(w)
  BY FinishOutcomes
<1>2. PICK asked, t :
        /\ asked \in BOOLEAN /\ t \in Resolved(s, e, asked)
        /\ \/ Rollback(w)
           \/ /\ ~Unmatched(s, e, t, asked)
              /\ \E b \in ResolvedBooking(s, e, t) :
                   \/ FinishConfirm(w, s, e, t, b)
                   \/ FinishConfirmUnmatched(w, s, e, t, b, asked)
                   \/ FinishReplay(w, s, e, t, b)
                   \/ FinishDuplicate(w, s, e, t, b, asked)
                   \/ FinishAuthorized(w, s, e, t, b)
                   \/ FinishFailed(w, s, e, t)
                   \/ FinishRefund(w, s, e, t, b)
                   \/ FinishInvalidRefund(w, s, e, t)
  BY FinishOutcomes
<1>3. CASE Rollback(w)
  BY <1>3, ReturnKeepsRows DEF Rollback, ledger
<1>4. CASE FinishInvalidRefund(w, s, e, t)
  BY <1>4, ReturnKeepsRows DEF FinishInvalidRefund, Commit
<1>5. ASSUME NEW b, FinishReplay(w, s, e, t, b) PROVE RowInv' /\ SettledStays
  BY <1>5, ReturnKeepsRows DEF FinishReplay, ledger
<1> QED
  BY <1>1, <1>2, <1>3, <1>4, <1>5, ConfirmKeepsRows, ConfirmUnmatchedKeepsRows,
     DuplicateKeepsRows, AuthorizedKeepsRows, FailedKeepsRows, RefundKeepsRows

-----------------------------------------------------------------------------
(* The other actions and the theorems.                                     *)

\* When every message names its booking, so does every message that arrives.
LEMMA EmittedNamed ==
    ASSUME UnkeyedKinds = {}, TypeInv, NEW e \in Event, Emitted(e)
    PROVE  e.ref \in Booking
<1>1. OrderOf(e) # NoId /\ RefAllowed(e)
  BY Zenon DEF Emitted
<1>2. OrderOf(e) \in Order /\ owner[OrderOf(e)] \in Booking
  BY <1>1, EventIds DEF TypeInv, TypeOK, ReceiptsKnown, OrderOf, Event
<1>3. e.ref \in Booking \cup {NoId}
  BY DEF Event
<1>4. CASE e.kind = "VERIFY_ENDPOINT"
  <2>1. e.ref # NoId \/ e.kind \in UnkeyedKinds
    BY <1>1, <1>4 DEF RefAllowed
  <2> QED
    BY <1>3, <2>1
<1>5. CASE e.kind # "VERIFY_ENDPOINT"
  <2>1. e.kind \notin UnkeyedKinds
    OBVIOUS
  <2>2. e.ref = owner[OrderOf(e)]
    BY <1>1, <1>5, <2>1, Zenon DEF RefAllowed
  <2> QED
    BY <1>2, <2>2
<1> QED
  BY <1>4, <1>5

\* The lock admits a request only if no other one holds the booking.
LEMMA BeginKeepsRows ==
    ASSUME UnkeyedKinds = {}, TypeInv, RowInv, NEW w \in Worker, NEW e \in Event, Begin(w, e)
    PROVE  RowInv' /\ SettledStays
<1>1. e.ref \in Booking /\ e.ref # NoId
  BY EmittedNamed, IdAssumption DEF Begin
<1>2. /\ db' = db
      /\ req' = [req EXCEPT ![w] = [pc |-> "commit", ev |-> e]]
      /\ seen' = [seen EXCEPT ![w] = db]
      /\ req \in [Worker -> Request] /\ seen \in [Worker -> Table]
  BY DEF Begin, ledger, TypeInv, TypeOK
<1>3. \A v \in Worker :
          /\ req'[v] = IF v = w THEN [pc |-> "commit", ev |-> e] ELSE req[v]
          /\ seen'[v] = IF v = w THEN db ELSE seen[v]
  BY <1>2
<1>4. \A v \in Worker : v # w /\ InCommit(v) => req[v].ev.ref # e.ref
  BY <1>1, IdAssumption DEF Begin, Blocked, LockKey, RowInv, BookingNamed
<1>5. OnePerBooking' /\ BookingNamed'
  BY <1>1, <1>3, <1>4 DEF RowInv, OnePerBooking, BookingNamed, InCommit
<1>6. SnapshotFresh'
  BY <1>2, <1>3 DEF RowInv, SnapshotFresh, InCommit
<1>7. OneInvoice' /\ SettledStays
  BY <1>2 DEF RowInv, OneInvoice, Rows, SettledStays, Settled
<1> QED
  BY <1>5, <1>6, <1>7 DEF RowInv

\* Storing an order does not settle, invoice or move a row.
LEMMA PersistOrderKeepsRows ==
    ASSUME TypeInv, RowInv, NEW o \in Order, PersistOrder(o)
    PROVE  RowInv' /\ SettledStays
<1>1. UNCHANGED <<req, seen>>
  BY DEF PersistOrder
<1>2. PICK t \in TxId, row \in Row :
        /\ db' = [txs |-> [db.txs EXCEPT ![t] = row], booking |-> db.booking]
        /\ PlacesNew(o, t, row) \/ PlacesOver(o, t, row)
  BY PlacedRow
<1>3. \A u \in TxId : db'.txs[u] = IF u = t THEN row ELSE db.txs[u]
  BY <1>2 DEF TypeInv, TypeOK, Table
<1>4. /\ row.invoices <= 1
      /\ t \in Rows => /\ row.bk = db.txs[t].bk /\ row.status = db.txs[t].status
                       /\ row.invoices = db.txs[t].invoices
  <2>1. CASE PlacesNew(o, t, row)
    BY <2>1 DEF PlacesNew, NewRow, FreeRow, Rows
  <2>2. CASE PlacesOver(o, t, row)
    BY <2>2, RowIsRow DEF PlacesOver, Row, RowInv, OneInvoice, Rows
  <2> QED
    BY <1>2, <2>1, <2>2
<1>5. (\A u \in Rows : Steady(u)) /\ OneInvoice' /\ SettledStays
  BY <1>3, <1>4 DEF Rows, Steady, OneInvoice, RowInv, SettledStays, Settled
<1> QED
  BY <1>1, <1>5, SteadyKeepsRows DEF InCommit

\* A refund of the API leaves a settled row settled.
LEMMA RefundCommitKeepsRows ==
    ASSUME TypeInv, RowInv, NEW t \in TxId, RefundCommit(t)
    PROVE  RowInv' /\ SettledStays
<1> DEFINE old == db.txs[t]  total == old.refunded + refunding[t]  full == (total >= Total)
           base == RefundedRow(old, full)
           row == [base EXCEPT !.refunded = total]
<1>1. old \in Row /\ full \in BOOLEAN
  BY DEF RefundCommit, TypeInv, TypeOK, RefundFits, Table
<1>2. /\ base \in Row /\ base.bk = old.bk /\ base.invoices = old.invoices
      /\ base.status \in {"REFUNDED", "PARTIALLY_REFUNDED"}
  <2> HIDE DEF old, full
  <2> QED
    BY <1>1, RefundedRowType
<1>3. db'.txs = [db.txs EXCEPT ![t] = row] /\ UNCHANGED <<req, seen>>
  BY DEF RefundCommit
<1> HIDE DEF base
<1>4. /\ row.bk = old.bk /\ row.invoices = old.invoices
      /\ row.status \in {"REFUNDED", "PARTIALLY_REFUNDED"}
  BY <1>2 DEF Row
<1> HIDE DEF row
<1>5. \A u \in TxId : db'.txs[u] = IF u = t THEN row ELSE db.txs[u]
  BY <1>3 DEF TypeInv, TypeOK, Table
<1>6. t \in Rows
  BY DEF RefundCommit, TypeInv, RefundFits, Rows
<1>7. (\A u \in Rows : Steady(u)) /\ OneInvoice' /\ SettledStays
  BY <1>4, <1>5, <1>6 DEF Rows, Steady, OneInvoice, RowInv, SettledStays, Settled
<1> QED
  BY <1>3, <1>7, SteadyKeepsRows DEF InCommit

\* Every step.
LEMMA NextRowInv ==
    ASSUME UnkeyedKinds = {}, TypeInv, RowInv, [Next]_vars
    PROVE  RowInv' /\ SettledStays
<1>1. CASE \E e \in Event : Deliver(e)
  BY <1>1, BeginKeepsRows DEF Deliver
<1>2. CASE \E w \in Worker : Finish(w)
  BY <1>2, FinishKeepsRows
<1>3. CASE \E w \in Worker : Dispatch(w)
  BY <1>3, ReturnKeepsRows DEF Dispatch, ledger
<1>4. CASE \E o \in Order : PersistOrder(o)
  BY <1>4, PersistOrderKeepsRows
<1>5. CASE \E t \in TxId : RefundCommit(t)
  BY <1>5, RefundCommitKeepsRows
<1>6. CASE Crash
  <2>1. Idle.pc # "commit"
    BY DEF Idle
  <2> QED
    BY <1>6, <2>1, UnwrittenKeepsRows DEF Crash, ledger, InCommit
<1>7. CASE db' = db /\ UNCHANGED <<req, seen>>
  BY <1>7, UnwrittenKeepsRows DEF InCommit
<1> QED
  BY <1>1, <1>2, <1>3, <1>4, <1>5, <1>6, <1>7
  DEF Next, PayNext, RefundNext, AckDuplicate, CreateOrder, ChooseRow, RefundCall,
      RefundLost, Fulfil, Attempt,
      Capture, DashboardRefund, ledger, server, vars

\* The initial state has no rows and no requests.
LEMMA InitRowInv == Init => RowInv
<1>1. Idle.pc # "commit"
  BY DEF Idle
<1> QED
  BY <1>1 DEF Init, RowInv, OnePerBooking, BookingNamed, SnapshotFresh, OneInvoice, Rows,
              Blank, InCommit

\* The inductive invariant of the rows.
THEOREM RowInvariant ==
    ASSUME UnkeyedKinds = {}
    PROVE  Spec => []RowInv
<1>1. TypeInv /\ RowInv /\ [Next]_vars => RowInv'
  BY NextRowInv
<1> QED
  BY <1>1, InitRowInv, TypeInvariant, PTL DEF Spec

\* When every message names its booking, no transaction ever has two invoices,
\* however many events of a payment race through however many processes.
THEOREM OneInvoiceAlways ==
    ASSUME UnkeyedKinds = {}
    PROVE  Spec => []OneInvoice
<1>1. RowInv => OneInvoice
  BY DEF RowInv
<1> QED
  BY <1>1, RowInvariant, PTL

\* When every message names its booking, no stale session turns a settled
\* payment into a failed or open one.
THEOREM SettledStaysSettled ==
    ASSUME UnkeyedKinds = {}
    PROVE  Spec => SettledOnlyRefunded
<1>1. TypeInv /\ RowInv /\ [Next]_vars => SettledStays
  BY NextRowInv
<1>2. SettledStays =>
        [\A t \in Rows : db.txs[t].status = "SUCCESSFUL" => db'.txs[t].status \in Settled]_vars
  BY DEF SettledStays
<1> QED
  BY <1>1, <1>2, RowInvariant, TypeInvariant, PTL DEF Spec, SettledOnlyRefunded

-----------------------------------------------------------------------------
(* Whose money it is.  An id on a row belongs to the row's booking: its     *)
(* order was created for that booking, or was booked while the gateway did  *)
(* not say for whom.  So a lookup that finds a row by an id, in however old *)
(* a snapshot, finds one of the booking that was paid.                      *)

\* The order behind an id carries the booking as its receipt, or nobody looked.
Receipt(o, b) == o \in Order /\ (owner[o] = b \/ o \in unchecked)
BelongsTo(id, b) == Receipt(id, b) \/ (id \in Payment /\ Receipt(gw[id].ord, b))
RowOwned(row) == \A id \in StoredIds(row) : BelongsTo(id, row.bk)

\* The same, of a row that is written in a step that may book an order.
OwnedSoon(id, b) ==
    \/ BelongsTo(id, b)
    \/ id \in Order /\ id \in unchecked'
    \/ id \in Payment /\ gw[id].ord \in Order /\ gw[id].ord \in unchecked'
RowOwnedSoon(row) == \A id \in StoredIds(row) : OwnedSoon(id, row.bk)

\* Rows, and what sessions loaded of them, store ids of their own booking, which
\* they never leave; a webhook that names a booking names its order's.
IdsOwned ==
    /\ \A t \in Rows : RowOwned(db.txs[t])
    /\ \A w \in Worker, t \in TxId : seen[w].txs[t] # NoRow =>
          RowOwned(seen[w].txs[t]) /\ seen[w].txs[t].bk = db.txs[t].bk
    /\ \A w \in Worker : InCommit(w) =>
          LET e == req[w].ev IN
          e.kind # "VERIFY_ENDPOINT" /\ e.ref # NoId => owner[OrderOf(e)] = e.ref

\* An order keeps its receipt, a payment its order; what was booked unchecked
\* stays so.
ReceiptsKept ==
    /\ unchecked \subseteq unchecked'
    /\ \A o \in Order : owner[o] # NoId => owner'[o] = owner[o]
    /\ \A p \in Payment : gw[p].ord # NoId => gw'[p].ord = gw[p].ord

\* A step that takes no request and writes only rows that own their ids.
LEMMA OwnedKept ==
    ASSUME TypeInv, TypeInv', IdsOwned, ReceiptsKept,
           \A t \in TxId : \/ db'.txs[t] = db.txs[t]
                           \/ /\ RowOwnedSoon(db'.txs[t])
                              /\ db.txs[t] = NoRow \/ db'.txs[t].bk = db.txs[t].bk,
           \A v \in Worker : seen'[v] = seen[v] \/ seen'[v] = Blank,
           \A v \in Worker : InCommit(v)' => InCommit(v) /\ req'[v] = req[v]
    PROVE  IdsOwned'
<1>1. \A t \in TxId : db'.txs[t] # NoRow => db'.txs[t].bk \in Booking /\ db'.txs[t] \in Row
  BY DEF TypeInv, TypeOK, Table, Row
<1>2. \A w \in Worker, t \in TxId : seen[w].txs[t] # NoRow => seen[w].txs[t].bk \in Booking
  BY DEF TypeInv, TypeOK, Table, Row
<1>3. \A row : row.bk \in Booking /\ RowOwnedSoon(row) => \A id \in StoredIds(row) :
          \/ id \in Order /\ (owner'[id] = row.bk \/ id \in unchecked')
          \/ /\ id \in Payment /\ gw'[id].ord \in Order
             /\ owner'[gw'[id].ord] = row.bk \/ gw'[id].ord \in unchecked'
  BY IdAssumption DEF RowOwnedSoon, OwnedSoon, BelongsTo, Receipt, ReceiptsKept
<1>4. \A t \in TxId : db'.txs[t] # NoRow => RowOwnedSoon(db'.txs[t]) /\ db'.txs[t].bk \in Booking
  BY <1>1 DEF IdsOwned, Rows, RowOwned, RowOwnedSoon, OwnedSoon
<1>6. \A w \in Worker, t \in TxId : seen'[w].txs[t] # NoRow =>
          /\ RowOwnedSoon(seen'[w].txs[t]) /\ seen'[w].txs[t].bk \in Booking
          /\ seen'[w].txs[t].bk = db'.txs[t].bk
  <2> SUFFICES ASSUME NEW w \in Worker, NEW t \in TxId, seen'[w].txs[t] # NoRow
               PROVE  /\ RowOwnedSoon(seen'[w].txs[t]) /\ seen'[w].txs[t].bk \in Booking
                      /\ seen'[w].txs[t].bk = db'.txs[t].bk
    OBVIOUS
  <2>1. seen'[w] = seen[w]
    BY DEF Blank
  <2>2. RowOwned(seen[w].txs[t]) /\ seen[w].txs[t].bk = db.txs[t].bk /\ seen[w].txs[t].bk \in Booking
    BY <1>2, <2>1 DEF IdsOwned
  <2>3. db.txs[t] # NoRow
    BY <2>1 DEF TypeInv, RowsKept
  <2>4. RowOwnedSoon(seen[w].txs[t])
    BY <2>2 DEF RowOwned, RowOwnedSoon, OwnedSoon
  <2> QED
    BY <2>1, <2>2, <2>3, <2>4
<1>5. \A w \in Worker : InCommit(w)' =>
          (req'[w].ev.kind # "VERIFY_ENDPOINT" /\ req'[w].ev.ref # NoId
              => owner'[gw'[req'[w].ev.pay].ord] = req'[w].ev.ref)
  <2> SUFFICES ASSUME NEW w \in Worker, InCommit(w)', req'[w].ev.kind # "VERIFY_ENDPOINT",
                      req'[w].ev.ref # NoId
               PROVE  owner'[gw'[req'[w].ev.pay].ord] = req'[w].ev.ref
    OBVIOUS
  <2>1. InCommit(w) /\ req'[w] = req[w]
    OBVIOUS
  <2>2. /\ owner[gw[req[w].ev.pay].ord] = req[w].ev.ref
        /\ gw[req[w].ev.pay].ord # NoId
    BY <2>1 DEF IdsOwned, OrderOf, TypeInv, ReceiptsKnown
  <2>3. req[w].ev.pay \in Payment /\ gw[req[w].ev.pay].ord \in Order
    <3>1. req[w] \in Request /\ req[w].pc = "commit" /\ gw \in [Payment -> GatewayPayment]
      BY <2>1 DEF TypeInv, TypeOK, InCommit
    <3>2. req[w].ev \in Event
      BY <3>1 DEF Request, Idle
    <3> QED
      BY <2>2, <3>1, <3>2 DEF Event, GatewayPayment
  <2> QED
    BY <2>1, <2>2, <2>3 DEF ReceiptsKept
<1>7. \A t \in Rows' : RowOwned(db.txs[t])'
  BY <1>3, <1>4 DEF Rows, RowOwned, BelongsTo, Receipt
<1>8. \A w \in Worker, t \in TxId : seen'[w].txs[t] # NoRow =>
          RowOwned(seen[w].txs[t])' /\ seen'[w].txs[t].bk = db'.txs[t].bk
  BY <1>3, <1>6 DEF RowOwned, BelongsTo, Receipt
<1> QED
  BY <1>5, <1>7, <1>8 DEF IdsOwned, OrderOf

\* The ids of an event belong to the booking its request works for, whatever the
\* browser named: a foreign order is turned away by the cross-booking guard, and
\* an order the booking has a row for is its own.  Where the gateway does not
\* answer no row is found, and the order that is booked is unchecked.
LEMMA EventOwned ==
    ASSUME TypeInv, IdsOwned, NEW w \in Worker, InCommit(w),
           NEW asked \in BOOLEAN, NEW t \in Resolved(seen[w], req[w].ev, asked),
           ~Unmatched(seen[w], req[w].ev, t, asked),
           NEW b \in ResolvedBooking(seen[w], req[w].ev, t)
    PROVE  /\ b \in Booking
           /\ t # 0 => \A id \in GatewayIds(req[w].ev) : BelongsTo(id, b)
           /\ Book(req[w].ev, asked) => \A id \in GatewayIds(req[w].ev) : OwnedSoon(id, b)
           /\ t # 0 => seen[w].txs[t].bk = b /\ db.txs[t].bk = b
<1> DEFINE e == req[w].ev  s == seen[w]  o == OrderOf(e)
<1>1. /\ e \in Event /\ s \in Table /\ o # NoId
      /\ t # 0 => t \in TxId /\ s.txs[t] \in Row /\ db.txs[t] \in Row
  BY Handling
<1>2. o \in Order /\ e.pay \in Payment /\ o = gw[e.pay].ord
  BY <1>1, EventIds DEF TypeInv, OrderOf
<1>3. b \in Booking /\ (e.ref # NoId => b = e.ref)
  BY <1>1, ResolvedBookingType
<1>4. \A u \in TxId : s.txs[u] # NoRow =>
         /\ s.txs[u].bk = db.txs[u].bk
         /\ StoredIds(s.txs[u]) \cap GatewayIds(e) # {} => Receipt(o, s.txs[u].bk)
  <2> SUFFICES ASSUME NEW u \in TxId, s.txs[u] # NoRow
               PROVE  /\ s.txs[u].bk = db.txs[u].bk
                      /\ StoredIds(s.txs[u]) \cap GatewayIds(e) # {} => Receipt(o, s.txs[u].bk)
    OBVIOUS
  <2>1. RowOwned(s.txs[u]) /\ s.txs[u].bk = db.txs[u].bk
    BY DEF IdsOwned
  <2>2. \A id \in StoredIds(s.txs[u]) : id = e.pay \/ id = o => Receipt(o, s.txs[u].bk)
    BY <1>2, <2>1, IdAssumption DEF RowOwned, BelongsTo, Receipt
  <2> QED
    BY <2>1, <2>2 DEF GatewayIds
<1>5. CASE e.ref # NoId
  <2>1. b = e.ref /\ ~CrossBooking(s, e, asked)
    BY <1>3, <1>5 DEF Unmatched
  <2>2. t # 0 => s.txs[t].bk = b
    BY <1>1, <1>5, <2>1, ResolvedRow
  <2>3. CASE ~asked /\ Asks(s, e)
    <3>1. ByStoredId(s, e) = {}
      BY <2>3 DEF Asks
    <3>2. ByGatewayId(s, e) = {}
      BY <1>5, <3>1 DEF ByGatewayId, ByStoredId, RowsOf, StoredIds
    <3>3. Found(s, e, asked) = {0}
      BY <2>3, <3>1, <3>2 DEF Found
    <3>4. t = 0
      BY <3>3 DEF Resolved
    <3>5. Book(e, asked) => o \in unchecked'
      BY <2>3 DEF Book
    <3> QED
      BY <1>2, <1>3, <3>4, <3>5 DEF GatewayIds, OwnedSoon
  <2>4. CASE asked \/ ~Asks(s, e)
    <3>1. e.kind # "VERIFY_ENDPOINT" => owner[o] = b
      BY <1>5, <2>1 DEF IdsOwned
    <3>2. ByStoredId(s, e) # {} => Receipt(o, b)
      BY <1>4, <2>1 DEF ByStoredId, RowsOf
    <3>3. e.kind = "VERIFY_ENDPOINT" /\ ByStoredId(s, e) = {} => owner[o] = b
      BY <1>5, <2>1, <2>4 DEF CrossBooking, Asks
    <3>4. Receipt(o, b)
      BY <1>2, <3>1, <3>2, <3>3 DEF Receipt
    <3>5. \A id \in GatewayIds(e) : BelongsTo(id, b)
      BY <1>2, <3>4 DEF GatewayIds, BelongsTo
    <3> QED
      BY <1>1, <1>3, <1>4, <2>2, <3>5, RowIsRow DEF OwnedSoon
  <2> QED
    BY <2>3, <2>4
<1>6. CASE e.ref = NoId
  <2>1. t # 0 /\ b = s.txs[t].bk
    BY <1>6 DEF Unmatched, ResolvedBooking
  <2>2. RowsOf(s, e.ref) = {}
    BY <1>1, <1>6, IdAssumption DEF RowsOf, Table, Row
  <2>3. ByStoredId(s, e) = {} /\ ByOpenFallback(s, e) = {} /\ Settlements(s, e.ref) = {}
    BY <2>2 DEF ByStoredId, ByOpenFallback, Settlements
  <2>4. \A u \in Oldest(Settlements(s, e.ref)) : u = 0
    BY <2>3, Lookup
  <2>5. t \in Found(s, e, asked)
    BY <2>1, <2>4 DEF Resolved
  <2>6. t \in ByGatewayId(s, e)
    BY <2>1, <2>3, <2>5, Lookup DEF Found
  <2>7. s.txs[t] # NoRow /\ StoredIds(s.txs[t]) \cap GatewayIds(e) # {} /\ t \in TxId
    BY <2>6 DEF ByGatewayId, StoredIds
  <2>8. Receipt(o, b) /\ s.txs[t].bk = db.txs[t].bk
    BY <1>4, <2>1, <2>7
  <2> QED
    BY <1>2, <1>3, <2>1, <2>8 DEF GatewayIds, BelongsTo, OwnedSoon
<1> QED
  BY <1>5, <1>6

\* The end of a request, which writes at most one row.
LEMMA WrittenOwned ==
    ASSUME TypeInv, TypeInv', IdsOwned, NEW w \in Worker, NEW r, r.pc # "commit",
           req' = [req EXCEPT ![w] = r], seen' = [seen EXCEPT ![w] = Blank],
           owner' = owner, gw' = gw, unchecked \subseteq unchecked',
           NEW t \in TxId, NEW row, db'.txs = [db.txs EXCEPT ![t] = row],
           RowOwnedSoon(row), db.txs[t] = NoRow \/ row.bk = db.txs[t].bk
    PROVE  IdsOwned'
<1>1. \A u \in TxId : db'.txs[u] = IF u = t THEN row ELSE db.txs[u]
  BY DEF TypeInv, TypeOK, Table
<1>2. \A v \in Worker : /\ seen'[v] = seen[v] \/ seen'[v] = Blank
                        /\ InCommit(v)' => InCommit(v) /\ req'[v] = req[v]
  BY DEF TypeInv, TypeOK, InCommit
<1>3. ReceiptsKept
  BY DEF ReceiptsKept
<1> QED
  BY <1>1, <1>2, <1>3, OwnedKept

\* A step that writes no row and takes no request.
LEMMA UnwrittenOwned ==
    ASSUME TypeInv, TypeInv', IdsOwned, db'.txs = db.txs, ReceiptsKept,
           \A v \in Worker : seen'[v] = seen[v] \/ seen'[v] = Blank,
           \A v \in Worker : InCommit(v)' => InCommit(v) /\ req'[v] = req[v]
    PROVE  IdsOwned'
BY OwnedKept

\* A request that ends without writing a row.
LEMMA ReturnOwned ==
    ASSUME TypeInv, TypeInv', IdsOwned, NEW w \in Worker, Return(w), db'.txs = db.txs,
           owner' = owner, gw' = gw, unchecked' = unchecked
    PROVE  IdsOwned'
<1>1. \A v \in Worker : /\ seen'[v] = seen[v] \/ seen'[v] = Blank
                        /\ InCommit(v)' => InCommit(v) /\ req'[v] = req[v]
  BY DEF TypeInv, TypeOK, InCommit, Return, Idle
<1>2. ReceiptsKept
  BY DEF ReceiptsKept
<1> QED
  BY <1>1, <1>2, UnwrittenOwned

\* A stale UPDATE leaves ids of the same booking, whichever columns it carries.
LEMMA UpdateOwned ==
    ASSUME NEW cur, NEW old, NEW new, RowOwned(cur), RowOwned(new),
           cur.bk = old.bk, new.bk = old.bk
    PROVE  RowOwned(Update(cur, old, new)) /\ Update(cur, old, new).bk = cur.bk
BY DEF RowOwned, StoredIds, Update, Column

\* Confirming leaves the payment's ids and those of the row, of one booking all.
LEMMA ConfirmOwned ==
    ASSUME TypeInv, TypeInv', IdsOwned, NEW w \in Worker, InCommit(w),
           NEW asked \in BOOLEAN, NEW t \in Resolved(seen[w], req[w].ev, asked), ~Unmatched(seen[w], req[w].ev, t, asked),
           NEW b \in ResolvedBooking(seen[w], req[w].ev, t),
           FinishConfirm(w, seen[w], req[w].ev, t, b)
    PROVE  IdsOwned'
<1> DEFINE e == req[w].ev  cur == db.txs[t]  old == seen[w].txs[t]
           row == SettledRow(old, e, b)  upd == Update(cur, old, row)
           r == [pc |-> "dispatch", ev |-> e, tx |-> t]
<1>1. t # 0 /\ t \in TxId /\ cur \in Row /\ old \in Row
  BY Handling DEF FinishConfirm
<1>2. /\ \A id \in GatewayIds(e) : BelongsTo(id, b)
      /\ old.bk = b /\ cur.bk = b
  BY <1>1, EventOwned
<1>3. RowOwned(old) /\ RowOwned(cur)
  BY <1>1, RowIsRow DEF IdsOwned, Rows
<1>4. RowOwned(row) /\ row.bk = b
  BY <1>1, <1>2, <1>3 DEF SettledRow, RowOwned, StoredIds, MergedResponse, GatewayIds, Row
<1>5. RowOwnedSoon(upd) /\ upd.bk = cur.bk
  <2> HIDE DEF row, cur, old
  <2> QED
    BY <1>2, <1>3, <1>4, UpdateOwned DEF RowOwned, RowOwnedSoon, OwnedSoon
<1>6. /\ db'.txs = [db.txs EXCEPT ![t] = upd] /\ owner' = owner /\ gw' = gw
      /\ unchecked' = unchecked
      /\ req' = [req EXCEPT ![w] = r] /\ seen' = [seen EXCEPT ![w] = Blank]
  BY DEF FinishConfirm, Confirmed, gateway
<1>7. r.pc # "commit"
  OBVIOUS
<1> HIDE DEF upd, r
<1> QED
  BY <1>1, <1>5, <1>6, <1>7, WrittenOwned

\* A PAY-REC row has the ids of its payment.
LEMMA ConfirmUnmatchedOwned ==
    ASSUME TypeInv, TypeInv', IdsOwned, NEW w \in Worker, InCommit(w),
           NEW asked \in BOOLEAN, NEW t \in Resolved(seen[w], req[w].ev, asked), ~Unmatched(seen[w], req[w].ev, t, asked),
           NEW b \in ResolvedBooking(seen[w], req[w].ev, t),
           FinishConfirmUnmatched(w, seen[w], req[w].ev, t, b, asked)
    PROVE  IdsOwned'
<1> DEFINE e == req[w].ev
           new == NewRow(b, "PENDING", OrderOf(e), RawResponse(e), FALSE)
           row == SettledRow(new, e, b)
<1>1. PICK n \in TxId : FreeRow(n) /\ Confirmed(w, e, n, b, row)
  BY DEF FinishConfirmUnmatched
<1> DEFINE r == [pc |-> "dispatch", ev |-> e, tx |-> n]
<1>2. \A id \in GatewayIds(e) : OwnedSoon(id, b)
  BY EventOwned DEF FinishConfirmUnmatched
<1>3. RowOwnedSoon(row)
  BY <1>2 DEF SettledRow, NewRow, RawResponse, RowOwnedSoon, StoredIds, MergedResponse, GatewayIds
<1>6. unchecked \subseteq unchecked'
  BY DEF FinishConfirmUnmatched, Book
<1>4. /\ db'.txs = [db.txs EXCEPT ![n] = row] /\ db.txs[n] = NoRow /\ owner' = owner /\ gw' = gw
      /\ req' = [req EXCEPT ![w] = r] /\ seen' = [seen EXCEPT ![w] = Blank]
  BY <1>1 DEF Confirmed, FreeRow, gateway
<1>5. r.pc # "commit"
  OBVIOUS
<1> HIDE DEF row, r
<1> QED
  BY <1>3, <1>4, <1>5, <1>6, WrittenOwned

\* So has a PAY-DUP row.
LEMMA DuplicateOwned ==
    ASSUME TypeInv, TypeInv', IdsOwned, NEW w \in Worker, InCommit(w),
           NEW asked \in BOOLEAN, NEW t \in Resolved(seen[w], req[w].ev, asked), ~Unmatched(seen[w], req[w].ev, t, asked),
           NEW b \in ResolvedBooking(seen[w], req[w].ev, t),
           FinishDuplicate(w, seen[w], req[w].ev, t, b, asked)
    PROVE  IdsOwned'
<1> DEFINE e == req[w].ev
           row == NewRow(b, "SUCCESSFUL", e.pay, RawResponse(e), TRUE)
<1>1. PICK n \in TxId : FreeRow(n) /\ db' = [db EXCEPT !.txs[n] = row]
  BY DEF FinishDuplicate
<1>2. \A id \in GatewayIds(e) : OwnedSoon(id, b)
  BY EventOwned DEF FinishDuplicate
<1>3. RowOwnedSoon(row)
  BY <1>2 DEF NewRow, RawResponse, RowOwnedSoon, StoredIds, GatewayIds
<1> HIDE DEF row
<1>4. db'.txs = [db.txs EXCEPT ![n] = row] /\ db.txs[n] = NoRow
  BY <1>1 DEF FreeRow, TypeInv, TypeOK, Table
<1>5. /\ req' = [req EXCEPT ![w] = Idle] /\ seen' = [seen EXCEPT ![w] = Blank]
      /\ owner' = owner /\ gw' = gw /\ Idle.pc # "commit" /\ unchecked \subseteq unchecked'
  BY DEF FinishDuplicate, Return, Idle, gateway, Book
<1> QED
  BY <1>3, <1>4, <1>5, WrittenOwned

\* A handler's UPDATE of the row it resolved.
LEMMA WriteRowOwned ==
    ASSUME TypeInv, TypeInv', IdsOwned, NEW w \in Worker, InCommit(w),
           NEW asked \in BOOLEAN, NEW t \in Resolved(seen[w], req[w].ev, asked), t # 0,
           NEW row, RowOwned(row), row.bk = seen[w].txs[t].bk, NEW booking, NEW B,
           Commit(w, req[w].ev, WriteRow(seen[w], t, row), booking, B)
    PROVE  IdsOwned'
<1> DEFINE cur == db.txs[t]  old == seen[w].txs[t]  upd == Update(cur, old, row)
<1>1. t \in TxId /\ cur \in Row /\ old \in Row
  BY Handling
<1>2. RowOwned(cur) /\ cur.bk = old.bk /\ row.bk = old.bk
  BY <1>1, RowIsRow DEF IdsOwned, Rows
<1>3. RowOwnedSoon(upd) /\ upd.bk = cur.bk
  <2> HIDE DEF cur, old
  <2> QED
    BY <1>2, UpdateOwned DEF RowOwned, RowOwnedSoon, OwnedSoon
<1>4. /\ db'.txs = [db.txs EXCEPT ![t] = upd] /\ owner' = owner /\ gw' = gw
      /\ unchecked' = unchecked
      /\ req' = [req EXCEPT ![w] = Idle] /\ seen' = [seen EXCEPT ![w] = Blank]
  BY DEF Commit, Return, WriteRow, gateway
<1>5. Idle.pc # "commit"
  BY DEF Idle
<1> HIDE DEF upd
<1> QED
  BY <1>1, <1>3, <1>4, <1>5, WrittenOwned

\* A row an event leaves: it has the event's ids and those the row had.
LEMMA EventRow ==
    ASSUME NEW e, NEW b, \A id \in GatewayIds(e) : BelongsTo(id, b),
           NEW old, old.bk = b, RowOwned(old), NEW row, row.bk = b,
           StoredIds(row) \subseteq StoredIds(old) \cup GatewayIds(e)
    PROVE  RowOwned(row)
BY DEF RowOwned

\* An authorization, ...
LEMMA AuthorizedOwned ==
    ASSUME TypeInv, TypeInv', IdsOwned, NEW w \in Worker, InCommit(w),
           NEW asked \in BOOLEAN, NEW t \in Resolved(seen[w], req[w].ev, asked), ~Unmatched(seen[w], req[w].ev, t, asked),
           NEW b \in ResolvedBooking(seen[w], req[w].ev, t),
           FinishAuthorized(w, seen[w], req[w].ev, t, b)
    PROVE  IdsOwned'
<1> DEFINE old == seen[w].txs[t]  e == req[w].ev
           row == [old EXCEPT !.status = "PROCESSING", !.gpid = e.pay, !.resp = RawResponse(e)]
<1>1. CASE t # 0 /\ old.status = "PENDING"
  <2>1. old \in Row /\ t \in TxId
    BY <1>1, Handling
  <2>2. /\ \A id \in GatewayIds(e) : BelongsTo(id, b)
        /\ old.bk = b /\ RowOwned(old)
    BY <1>1, <2>1, EventOwned, RowIsRow DEF IdsOwned
  <2>3. RowOwned(row) /\ row.bk = old.bk
    <3>1. row.bk = b /\ StoredIds(row) \subseteq StoredIds(old) \cup GatewayIds(e)
      BY <2>1, <2>2 DEF Row, StoredIds, RawResponse, GatewayIds
    <3> HIDE DEF old, e, row
    <3> QED
      BY <2>2, <3>1, EventRow
  <2>4. Commit(w, e, WriteRow(seen[w], t, row), db.booking, {b})
    BY <1>1 DEF FinishAuthorized
  <2> HIDE DEF row
  <2> QED
    BY <1>1, <2>3, <2>4, WriteRowOwned
<1>2. CASE ~(t # 0 /\ old.status = "PENDING")
  BY <1>2, ReturnOwned DEF FinishAuthorized, Commit, gateway
<1> QED
  BY <1>1, <1>2

\* ... a failed attempt ...
LEMMA FailedOwned ==
    ASSUME TypeInv, TypeInv', IdsOwned, NEW w \in Worker, InCommit(w),
           NEW asked \in BOOLEAN, NEW t \in Resolved(seen[w], req[w].ev, asked), ~Unmatched(seen[w], req[w].ev, t, asked),
           NEW b \in ResolvedBooking(seen[w], req[w].ev, t),
           FinishFailed(w, seen[w], req[w].ev, t)
    PROVE  IdsOwned'
<1> DEFINE old == seen[w].txs[t]  e == req[w].ev
           row == [old EXCEPT !.status = "FAILED", !.resp = RawResponse(e)]
<1>1. CASE old.status # "SUCCESSFUL"
  <2>1. t # 0 /\ old \in Row /\ t \in TxId
    BY Handling DEF FinishFailed
  <2>2. /\ \A id \in GatewayIds(e) : BelongsTo(id, b)
        /\ old.bk = b /\ RowOwned(old)
    BY <2>1, EventOwned, RowIsRow DEF IdsOwned
  <2>3. RowOwned(row) /\ row.bk = old.bk
    <3>1. row.bk = b /\ StoredIds(row) \subseteq StoredIds(old) \cup GatewayIds(e)
      BY <2>1, <2>2 DEF Row, StoredIds, RawResponse, GatewayIds
    <3> HIDE DEF old, e, row
    <3> QED
      BY <2>2, <3>1, EventRow
  <2>4. Commit(w, e, WriteRow(seen[w], t, row), db.booking, {})
    BY <1>1 DEF FinishFailed
  <2> HIDE DEF row
  <2> QED
    BY <2>1, <2>3, <2>4, WriteRowOwned
<1>2. CASE old.status = "SUCCESSFUL"
  BY <1>2, ReturnOwned DEF FinishFailed, Commit, gateway
<1> QED
  BY <1>1, <1>2

\* ... and a refund event leave ids of the booking.
LEMMA RefundOwned ==
    ASSUME TypeInv, TypeInv', IdsOwned, NEW w \in Worker, InCommit(w),
           NEW asked \in BOOLEAN, NEW t \in Resolved(seen[w], req[w].ev, asked), ~Unmatched(seen[w], req[w].ev, t, asked),
           NEW b \in ResolvedBooking(seen[w], req[w].ev, t),
           FinishRefund(w, seen[w], req[w].ev, t, b)
    PROVE  IdsOwned'
<1> DEFINE old == seen[w].txs[t]  e == req[w].ev  full == (e.cum = Total)
           row == RefundedRow(old, full)
           booking == IF full THEN SetBooking(b, "CANCELLED") ELSE db.booking
<1>1. t # 0 /\ old \in Row /\ t \in TxId
  BY Handling DEF FinishRefund
<1>2. /\ \A id \in GatewayIds(e) : BelongsTo(id, b)
      /\ old.bk = b /\ RowOwned(old)
  BY <1>1, EventOwned, RowIsRow DEF IdsOwned
<1>3. RowOwned(row) /\ row.bk = old.bk
  <2>1. row.bk = b /\ StoredIds(row) \subseteq StoredIds(old) \cup GatewayIds(e)
    BY <1>1, <1>2 DEF RefundedRow, Row, StoredIds
  <2> HIDE DEF old, e, row
  <2> QED
    BY <1>2, <2>1, EventRow
<1>4. Commit(w, e, WriteRow(seen[w], t, row), booking, IF full THEN {b} ELSE {})
  BY DEF FinishRefund
<1> HIDE DEF row, booking
<1> QED
  BY <1>1, <1>3, <1>4, WriteRowOwned

\* Every outcome of a request.
LEMMA FinishOwned ==
    ASSUME TypeInv, TypeInv', IdsOwned, NEW w \in Worker, Finish(w)
    PROVE  IdsOwned'
<1> DEFINE s == seen[w]  e == req[w].ev
<1>1. InCommit(w)
  BY FinishOutcomes
<1>2. PICK asked, t :
        /\ asked \in BOOLEAN /\ t \in Resolved(s, e, asked)
        /\ \/ Rollback(w)
           \/ /\ ~Unmatched(s, e, t, asked)
              /\ \E b \in ResolvedBooking(s, e, t) :
                   \/ FinishConfirm(w, s, e, t, b)
                   \/ FinishConfirmUnmatched(w, s, e, t, b, asked)
                   \/ FinishReplay(w, s, e, t, b)
                   \/ FinishDuplicate(w, s, e, t, b, asked)
                   \/ FinishAuthorized(w, s, e, t, b)
                   \/ FinishFailed(w, s, e, t)
                   \/ FinishRefund(w, s, e, t, b)
                   \/ FinishInvalidRefund(w, s, e, t)
  BY FinishOutcomes
<1>3. CASE Rollback(w)
  BY <1>3, ReturnOwned DEF Rollback, ledger, gateway
<1>4. CASE FinishInvalidRefund(w, s, e, t)
  BY <1>4, ReturnOwned DEF FinishInvalidRefund, Commit, gateway
<1>5. ASSUME NEW b, FinishReplay(w, s, e, t, b) PROVE IdsOwned'
  BY <1>5, ReturnOwned DEF FinishReplay, ledger, gateway
<1> QED
  BY <1>1, <1>2, <1>3, <1>4, <1>5, ConfirmOwned, ConfirmUnmatchedOwned,
     DuplicateOwned, AuthorizedOwned, FailedOwned, RefundOwned

\* What a request loads is what the ledger holds; a webhook that names a booking
\* names the receipt of its order.
LEMMA BeginOwned ==
    ASSUME TypeInv, IdsOwned, NEW w \in Worker, NEW e \in Event, Begin(w, e)
    PROVE  IdsOwned'
<1>1. /\ db' = db /\ owner' = owner /\ gw' = gw
      /\ \A v \in Worker : /\ req'[v] = IF v = w THEN [pc |-> "commit", ev |-> e] ELSE req[v]
                           /\ seen'[v] = IF v = w THEN db ELSE seen[v]
      /\ unchecked' = unchecked
  BY DEF Begin, ledger, TypeInv, TypeOK, gateway
<1>2. e.kind # "VERIFY_ENDPOINT" /\ e.ref # NoId => owner[OrderOf(e)] = e.ref
  <2>1. RefAllowed(e)
    BY Zenon DEF Begin, Emitted
  <2> QED
    BY <2>1 DEF RefAllowed
<1>3. \A t \in TxId : db.txs[t] # NoRow => RowOwned(db.txs[t])
  BY DEF IdsOwned, Rows
<1> QED
  BY <1>1, <1>2, <1>3 DEF IdsOwned, InCommit, Rows, RowOwned, BelongsTo, Receipt, OrderOf

\* A stored order is the booking's own.
LEMMA PersistOrderOwned ==
    ASSUME TypeInv, TypeInv', IdsOwned, NEW o \in Order, PersistOrder(o)
    PROVE  IdsOwned'
<1>1. UNCHANGED <<req, seen, owner, gw>> /\ ReceiptsKept
  BY DEF PersistOrder, ReceiptsKept
<1>2. PICK t \in TxId, row \in Row :
        /\ db' = [txs |-> [db.txs EXCEPT ![t] = row], booking |-> db.booking]
        /\ PlacesNew(o, t, row) \/ PlacesOver(o, t, row)
        /\ row.bk = owner[o] /\ row.gpid = o /\ row.resp = OrderResponse(o)
  BY PlacedRow
<1>3. RowOwnedSoon(row)
  BY <1>2 DEF OrderResponse, RowOwnedSoon, OwnedSoon, StoredIds, BelongsTo, Receipt
<1>4. \A u \in TxId : db'.txs[u] = IF u = t THEN row ELSE db.txs[u]
  BY <1>2 DEF TypeInv, TypeOK, Table
<1>5. db.txs[t] = NoRow \/ row.bk = db.txs[t].bk
  BY <1>2 DEF PlacesNew, PlacesOver, FreeRow
<1> QED
  BY <1>1, <1>3, <1>4, <1>5, OwnedKept DEF InCommit

\* A refund of the API changes no id.
LEMMA RefundCommitOwned ==
    ASSUME TypeInv, TypeInv', IdsOwned, NEW t \in TxId, RefundCommit(t)
    PROVE  IdsOwned'
<1> DEFINE old == db.txs[t]  total == old.refunded + refunding[t]  full == (total >= Total)
           base == RefundedRow(old, full)
           row == [base EXCEPT !.refunded = total]
<1>1. old \in Row /\ full \in BOOLEAN /\ t \in Rows
  BY DEF RefundCommit, TypeInv, TypeOK, RefundFits, Table, Rows
<1>2. /\ db'.txs = [db.txs EXCEPT ![t] = row] /\ UNCHANGED <<req, seen, unchecked, owner, gw>>
  BY DEF RefundCommit, gateway
<1>3. RowOwnedSoon(row) /\ row.bk = old.bk
  <2>1. RowOwned(old)
    BY <1>1 DEF IdsOwned
  <2> HIDE DEF total, full
  <2> QED
    BY <1>1, <2>1 DEF RefundedRow, RowOwned, RowOwnedSoon, OwnedSoon, StoredIds, Row
<1> HIDE DEF row
<1>4. \A u \in TxId : db'.txs[u] = IF u = t THEN row ELSE db.txs[u]
  BY <1>2 DEF TypeInv, TypeOK, Table
<1>5. ReceiptsKept
  BY <1>2 DEF ReceiptsKept
<1> QED
  BY <1>2, <1>3, <1>4, <1>5, OwnedKept DEF InCommit

\* Orders and payments at the gateway: a receipt is written once, and so is the
\* order of a payment.
LEMMA GatewayKeepsReceipts ==
    ASSUME TypeInv,
           \/ \E b \in Booking, o \in Order : CreateOrder(b, o)
           \/ \E p \in Payment, o \in Order, st \in {"authorized", "failed"} : Attempt(p, o, st)
           \/ \E p \in Payment : Capture(p)
           \/ \E t \in TxId, amt \in 1 .. Total : RefundCall(t, amt)
           \/ \E p \in Payment, amt \in 1 .. Total : DashboardRefund(p, amt)
    PROVE  ReceiptsKept /\ db' = db /\ UNCHANGED <<req, seen>>
<1>1. gw \in [Payment -> GatewayPayment] /\ owner \in [Order -> Booking \cup {NoId}]
  BY DEF TypeInv, TypeOK
<1>2. CASE \E b \in Booking, o \in Order : CreateOrder(b, o)
  BY <1>1, <1>2 DEF CreateOrder, ReceiptsKept, ledger
<1>3. CASE \E p \in Payment, o \in Order, st \in {"authorized", "failed"} : Attempt(p, o, st)
  BY <1>1, <1>3 DEF Attempt, ReceiptsKept, ledger, server, GatewayPayment
<1>4. CASE \E p \in Payment : Capture(p)
  BY <1>1, <1>4 DEF Capture, ReceiptsKept, ledger, server, GatewayPayment
<1>5. ASSUME NEW p, NEW amt, RefundAtGateway(p, amt), owner' = owner, unchecked' = unchecked
      PROVE  ReceiptsKept
  BY <1>1, <1>5 DEF RefundAtGateway, ReceiptsKept, GatewayPayment
<1>6. CASE \E t \in TxId, amt \in 1 .. Total : RefundCall(t, amt)
  BY <1>5, <1>6 DEF RefundCall, ledger
<1>7. CASE \E p \in Payment, amt \in 1 .. Total : DashboardRefund(p, amt)
  BY <1>5, <1>7 DEF DashboardRefund, ledger, server
<1> QED
  BY <1>2, <1>3, <1>4, <1>6, <1>7

\* Every step.
LEMMA NextOwned == TypeInv /\ TypeInv' /\ IdsOwned /\ [Next]_vars => IdsOwned'
<1> SUFFICES ASSUME TypeInv, TypeInv', IdsOwned, [Next]_vars
             PROVE  IdsOwned'
  OBVIOUS
<1>1. CASE \E e \in Event : Deliver(e)
  BY <1>1, BeginOwned DEF Deliver
<1>2. CASE \E w \in Worker : Finish(w)
  BY <1>2, FinishOwned
<1>3. CASE \E w \in Worker : Dispatch(w)
  BY <1>3, ReturnOwned DEF Dispatch, ledger, gateway
<1>4. CASE \E o \in Order : PersistOrder(o)
  BY <1>4, PersistOrderOwned
<1>5. CASE \E t \in TxId : RefundCommit(t)
  BY <1>5, RefundCommitOwned
<1>6. CASE Crash
  <2>1. Idle.pc # "commit"
    BY DEF Idle
  <2> QED
    BY <1>6, <2>1, UnwrittenOwned DEF Crash, ledger, InCommit, gateway, ReceiptsKept
<1>7. CASE ReceiptsKept /\ db' = db /\ UNCHANGED <<req, seen>>
  BY <1>7, UnwrittenOwned DEF InCommit
<1>8. CASE UNCHANGED <<db, req, seen, unchecked, owner, gw>>
  BY <1>7, <1>8 DEF ReceiptsKept
<1> QED
  BY <1>1, <1>2, <1>3, <1>4, <1>5, <1>6, <1>7, <1>8, GatewayKeepsReceipts
  DEF Next, PayNext, RefundNext, AckDuplicate, ChooseRow, RefundLost, Fulfil, ledger, gateway,
      vars

\* The initial state has no ids.
LEMMA InitOwned == Init => IdsOwned
<1>1. Idle.pc # "commit"
  BY DEF Idle
<1> QED
  BY <1>1 DEF Init, IdsOwned, Rows, Blank, InCommit

\* Whatever reference a browser sends to the verify endpoint, whether or not the
\* messages name their booking, whatever refunds and crashes come between: money
\* paid for one booking never settles a row of another one (REF_MISMATCH, the
\* cross-booking guard of handle_verified_payment), unless it was booked while
\* the gateway did not answer for its order.
THEOREM NoCrossBookingTheorem == Spec => []NoCrossBooking
<1>1. IdsOwned => NoCrossBooking
  <2> SUFFICES ASSUME IdsOwned, NEW t \in Rows, NEW p \in Payment, db.txs[t].gpid = p
               PROVE  owner[gw[p].ord] = db.txs[t].bk \/ gw[p].ord \in unchecked
    BY DEF NoCrossBooking
  <2>1. BelongsTo(p, db.txs[t].bk)
    BY DEF IdsOwned, RowOwned, StoredIds
  <2> QED
    BY <2>1, IdAssumption DEF BelongsTo, Receipt
<1> QED
  BY <1>1, InitOwned, NextOwned, TypeInvariant, PTL DEF Spec

-----------------------------------------------------------------------------
(* Money, without refunds and when every message names its booking.  A     *)
(* request decides on what it loaded, but nobody else may change its       *)
(* booking before it commits: it sees the booking as it is.  So a request  *)
(* that confirms finds no settlement and no duplicate on the ledger, and   *)
(* one that sets money aside finds the settlement there.                   *)

NothingRefunded ==
    /\ \A p \in Payment : gw[p].cums = {}
    /\ \A w \in Worker : InCommit(w) => req[w].ev.kind # "refund"

\* A SUCCESSFUL row confirms its booking, a duplicate stays SUCCESSFUL, and a
\* PENDING row names an order.
RowsMeanMoney ==
    \A t \in Rows :
       /\ db.txs[t].dup => db.txs[t].status = "SUCCESSFUL"
       /\ db.txs[t].status = "SUCCESSFUL" => db.booking[db.txs[t].bk] = "CONFIRMED"
       /\ db.txs[t].status = "PENDING" => db.txs[t].gpid \in Order

BookingsBacked == \A b \in Booking : db.booking[b] = "CONFIRMED" => Settlements(db, b) # {}

\* What a request loaded of its booking is what the ledger holds, except that a
\* new order may have replaced a row's id: an order's, or any if it came late.
SameRow(old, cur, L) ==
    /\ cur.status = old.status /\ cur.dup = old.dup
    /\ \/ cur.gpid = old.gpid
       \/ /\ cur.gpid \in Order
          /\ IF cur.status = "PENDING" THEN old.gpid \in Order ELSE cur.gpid \in L
SnapshotExact ==
    \A w \in Worker : InCommit(w) =>
       /\ seen[w].booking[req[w].ev.ref] = db.booking[req[w].ev.ref]
       /\ \A t \in TxId : seen[w].txs[t] # NoRow /\ seen[w].txs[t].bk = req[w].ev.ref
             => SameRow(seen[w].txs[t], db.txs[t], late)

MoneyInv == NothingRefunded /\ RowsMeanMoney /\ BookingsBacked /\ OneSettlement /\ SnapshotExact

\* The four things a step may do to the money of the ledger: nothing, ...
Moneyless(row) == row.status # "SUCCESSFUL" /\ ~row.dup
QuietRow(old, new) ==
    \/ new = old
    \/ /\ old = NoRow \/ Moneyless(old)
       /\ new # NoRow /\ Moneyless(new) /\ (new.status = "PENDING" => new.gpid \in Order)
Quiet == /\ db'.booking = db.booking
         /\ \A t \in TxId : QuietRow(db.txs[t], db'.txs[t])

\* ... settle a booking nothing settled yet, ...
Settles(b, t, row) ==
    /\ db.booking[b] # "CONFIRMED"
    /\ GatewayIdFree(t, row.gpid) /\ row.gpid \in Payment \cup late
    /\ row.bk = b /\ row.status = "SUCCESSFUL" /\ ~row.dup
    /\ db.txs[t] = NoRow \/ db.txs[t].bk = b
    /\ db'.txs = [db.txs EXCEPT ![t] = row]
    /\ db'.booking = [db.booking EXCEPT ![b] = "CONFIRMED"]

\* ... set money aside, ...
SetsAside(b, t, row) ==
    /\ db.booking[b] = "CONFIRMED"
    /\ GatewayIdFree(t, row.gpid) /\ row.gpid \in Payment
    /\ row.bk = b /\ row.status = "SUCCESSFUL" /\ row.dup
    /\ db.txs[t] = NoRow
    /\ db'.txs = [db.txs EXCEPT ![t] = row] /\ db'.booking = db.booking

\* ... or put a late order's id in the place of a settlement's.
Renames(b, t, row) ==
    /\ db.txs[t] # NoRow /\ db.txs[t].bk = b
    /\ db.txs[t].status = "SUCCESSFUL" /\ ~db.txs[t].dup
    /\ row.bk = b /\ row.status = "SUCCESSFUL" /\ ~row.dup
    /\ row.gpid \in late' \cap Order
    /\ db'.txs = [db.txs EXCEPT ![t] = row] /\ db'.booking = db.booking

MoneyStep ==
    \/ Quiet
    \/ \E b \in Booking, t \in TxId, row \in Row :
          Settles(b, t, row) \/ SetsAside(b, t, row) \/ Renames(b, t, row)

\* Before a booking is confirmed it has neither a settlement nor a duplicate.
LEMMA Unsettled ==
    ASSUME TypeInv, RowsMeanMoney, NEW b \in Booking, db.booking[b] # "CONFIRMED",
           NEW t \in TxId, db.txs[t] # NoRow, db.txs[t].bk = b
    PROVE  db.txs[t].status # "SUCCESSFUL" /\ ~db.txs[t].dup
BY DEF RowsMeanMoney, Rows

\* The rows after a step that writes one.
LEMMA OneRowWritten ==
    ASSUME TypeInv, NEW t \in TxId, NEW row, db'.txs = [db.txs EXCEPT ![t] = row]
    PROVE  \A u \in TxId : db'.txs[u] = IF u = t THEN row ELSE db.txs[u]
BY DEF TypeInv, TypeOK, Table

\* A quiet step moves no settlement and no duplicate.
LEMMA QuietRows ==
    ASSUME TypeInv, TypeInv', Quiet
    PROVE  /\ \A b \in Booking : Settlements(db', b) = Settlements(db, b)
           /\ \A b \in Booking : \A t \in Settlements(db, b) : db'.txs[t] = db.txs[t]
           /\ {u \in Rows' : db'.txs[u].dup} = {u \in Rows : db.txs[u].dup}
           /\ \A t \in Rows : db.txs[t].dup => db'.txs[t] = db.txs[t]
<1>1. \A t \in TxId : /\ db'.txs[t] = db.txs[t]
                         \/ /\ db.txs[t] = NoRow \/ (db.txs[t].status # "SUCCESSFUL" /\ ~db.txs[t].dup)
                            /\ db'.txs[t] # NoRow /\ db'.txs[t].status # "SUCCESSFUL" /\ ~db'.txs[t].dup
  BY DEF Quiet, QuietRow, Moneyless
<1>2. \A b \in Booking, t \in TxId : t \in Settlements(db', b) <=> t \in Settlements(db, b)
  BY <1>1 DEF Settlements, RowsOf
<1>3. \A b \in Booking : \A t \in Settlements(db, b) : db'.txs[t] = db.txs[t]
  BY <1>1 DEF Settlements, RowsOf
<1>4. {u \in Rows' : db'.txs[u].dup} = {u \in Rows : db.txs[u].dup}
  BY <1>1 DEF Rows
<1>5. \A t \in Rows : db.txs[t].dup => db'.txs[t] = db.txs[t]
  BY <1>1 DEF Rows
<1>6. \A b \in Booking : Settlements(db', b) \subseteq TxId /\ Settlements(db, b) \subseteq TxId
  BY DEF Settlements, RowsOf
<1> QED
  BY <1>2, <1>3, <1>4, <1>5, <1>6

\* A step that settles a booking gives it its only settlement.
LEMMA SettledRows ==
    ASSUME TypeInv, RowsMeanMoney, NEW b \in Booking, NEW t \in TxId, NEW row \in Row,
           Settles(b, t, row)
    PROVE  /\ Settlements(db, b) = {} /\ Settlements(db', b) = {t}
           /\ \A c \in Booking \ {b} : Settlements(db', c) = Settlements(db, c)
           /\ \A c \in Booking \ {b} : t \notin Settlements(db, c)
           /\ {u \in Rows' : db'.txs[u].dup} = {u \in Rows : db.txs[u].dup}
           /\ \A u \in Rows : db.txs[u].dup => u # t
<1>1. \A u \in TxId : db'.txs[u] = IF u = t THEN row ELSE db.txs[u]
  BY OneRowWritten DEF Settles
<1>2. row # NoRow /\ row.bk = b /\ row.status = "SUCCESSFUL" /\ ~row.dup
  BY RowIsRow DEF Settles
<1>3. \A u \in TxId : db.txs[u] # NoRow /\ db.txs[u].bk = b
          => db.txs[u].status # "SUCCESSFUL" /\ ~db.txs[u].dup
  BY Unsettled DEF Settles
<1>4. db.txs[t] = NoRow \/ db.txs[t].bk = b
  BY DEF Settles
<1>5. Settlements(db, b) = {}
  BY <1>3 DEF Settlements, RowsOf
<1>6. Settlements(db', b) = {t}
  BY <1>1, <1>2, <1>3 DEF Settlements, RowsOf
<1>7. \A c \in Booking \ {b} : t \notin Settlements(db, c) /\ Settlements(db', c) = Settlements(db, c)
  BY <1>1, <1>2, <1>4 DEF Settlements, RowsOf
<1>8. \A u \in Rows : db.txs[u].dup => u # t
  BY <1>3, <1>4 DEF Rows
<1>9. {u \in Rows' : db'.txs[u].dup} = {u \in Rows : db.txs[u].dup}
  BY <1>1, <1>2, <1>8 DEF Rows
<1> QED
  BY <1>5, <1>6, <1>7, <1>8, <1>9

\* A step that sets money aside adds a duplicate.
LEMMA AsideRows ==
    ASSUME TypeInv, NEW b \in Booking, NEW t \in TxId, NEW row \in Row, SetsAside(b, t, row)
    PROVE  /\ \A c \in Booking : Settlements(db', c) = Settlements(db, c)
           /\ \A c \in Booking : t \notin Settlements(db, c)
           /\ {u \in Rows' : db'.txs[u].dup} = {u \in Rows : db.txs[u].dup} \cup {t}
           /\ t \notin Rows
<1>1. \A u \in TxId : db'.txs[u] = IF u = t THEN row ELSE db.txs[u]
  BY OneRowWritten DEF SetsAside
<1>2. row # NoRow /\ row.dup /\ db.txs[t] = NoRow
  BY RowIsRow DEF SetsAside
<1>3. \A c \in Booking : t \notin Settlements(db, c) /\ Settlements(db', c) = Settlements(db, c)
  BY <1>1, <1>2 DEF Settlements, RowsOf
<1>4. {u \in Rows' : db'.txs[u].dup} = {u \in Rows : db.txs[u].dup} \cup {t}
  BY <1>1, <1>2 DEF Rows
<1> QED
  BY <1>2, <1>3, <1>4 DEF Rows

\* A step that renames a settlement keeps it where it was.
LEMMA RenamedRows ==
    ASSUME TypeInv, NEW b \in Booking, NEW t \in TxId, NEW row \in Row, Renames(b, t, row)
    PROVE  /\ t \in Settlements(db, b)
           /\ \A c \in Booking : Settlements(db', c) = Settlements(db, c)
           /\ \A c \in Booking \ {b} : t \notin Settlements(db, c)
           /\ {u \in Rows' : db'.txs[u].dup} = {u \in Rows : db.txs[u].dup}
           /\ \A u \in Rows : db.txs[u].dup => u # t
<1>1. \A u \in TxId : db'.txs[u] = IF u = t THEN row ELSE db.txs[u]
  BY OneRowWritten DEF Renames
<1>2. /\ row # NoRow /\ row.bk = b /\ row.status = "SUCCESSFUL" /\ ~row.dup
      /\ db.txs[t] # NoRow /\ db.txs[t].bk = b
      /\ db.txs[t].status = "SUCCESSFUL" /\ ~db.txs[t].dup
  BY RowIsRow DEF Renames
<1>3. t \in Settlements(db, b)
  BY <1>2 DEF Settlements, RowsOf
<1>4. \A c \in Booking : Settlements(db', c) = Settlements(db, c)
  BY <1>1, <1>2 DEF Settlements, RowsOf
<1>5. \A c \in Booking \ {b} : t \notin Settlements(db, c)
  BY <1>2 DEF Settlements, RowsOf
<1>6. {u \in Rows' : db'.txs[u].dup} = {u \in Rows : db.txs[u].dup}
  BY <1>1, <1>2 DEF Rows
<1> QED
  BY <1>2, <1>3, <1>4, <1>5, <1>6

\* Such steps keep the books.
LEMMA MoneyStepKeeps ==
    ASSUME TypeInv, TypeInv', RowsMeanMoney, BookingsBacked, OneSettlement, MoneyStep
    PROVE  RowsMeanMoney' /\ BookingsBacked' /\ OneSettlement'
<1>1. CASE Quiet
  <2>1. RowsMeanMoney'
    <3>1. \A t \in TxId : db'.txs[t] # NoRow =>
              /\ db'.txs[t].dup => db'.txs[t].status = "SUCCESSFUL"
              /\ db'.txs[t].status = "SUCCESSFUL" => db.booking[db'.txs[t].bk] = "CONFIRMED"
              /\ db'.txs[t].status = "PENDING" => db'.txs[t].gpid \in Order
      BY <1>1 DEF Quiet, QuietRow, Moneyless, RowsMeanMoney, Rows
    <3> QED
      BY <1>1, <3>1 DEF Quiet, RowsMeanMoney, Rows
  <2>2. \A b \in Booking : Settlements(db', b) = Settlements(db, b)
    BY <1>1, QuietRows
  <2>3. db'.booking = db.booking
    BY <1>1 DEF Quiet
  <2> QED
    BY <2>1, <2>2, <2>3 DEF BookingsBacked, OneSettlement
<1>2. ASSUME NEW b \in Booking, NEW t \in TxId, NEW row \in Row, Settles(b, t, row)
      PROVE  RowsMeanMoney' /\ BookingsBacked' /\ OneSettlement'
  <2>1. \A u \in TxId : db'.txs[u] = IF u = t THEN row ELSE db.txs[u]
    BY <1>2, OneRowWritten DEF Settles
  <2>2. \A c \in Booking : db'.booking[c] = IF c = b THEN "CONFIRMED" ELSE db.booking[c]
    BY <1>2 DEF Settles, TypeInv, TypeOK, Table
  <2>3. /\ Settlements(db', b) = {t}
        /\ \A c \in Booking \ {b} : Settlements(db', c) = Settlements(db, c)
    BY <1>2, SettledRows
  <2>4. \A u \in TxId : db.txs[u] # NoRow => db.txs[u].bk \in Booking
    BY DEF TypeInv, TypeOK, Table, Row
  <2>5. RowsMeanMoney'
    <3>1. row.bk = b /\ row.status = "SUCCESSFUL"
      BY <1>2 DEF Settles
    <3> QED
      BY <2>1, <2>2, <2>4, <3>1 DEF RowsMeanMoney, Rows
  <2>6. BookingsBacked' /\ OneSettlement'
    BY <2>2, <2>3 DEF BookingsBacked, OneSettlement
  <2> QED
    BY <2>5, <2>6
<1>3. ASSUME NEW b \in Booking, NEW t \in TxId, NEW row \in Row, SetsAside(b, t, row)
      PROVE  RowsMeanMoney' /\ BookingsBacked' /\ OneSettlement'
  <2>1. \A u \in TxId : db'.txs[u] = IF u = t THEN row ELSE db.txs[u]
    BY <1>3, OneRowWritten DEF SetsAside
  <2>2. row.bk = b /\ row.status = "SUCCESSFUL" /\ db'.booking = db.booking
        /\ db.booking[b] = "CONFIRMED"
    BY <1>3 DEF SetsAside
  <2>3. \A c \in Booking : Settlements(db', c) = Settlements(db, c)
    BY <1>3, AsideRows
  <2>4. RowsMeanMoney'
    BY <2>1, <2>2 DEF RowsMeanMoney, Rows
  <2>5. BookingsBacked' /\ OneSettlement'
    BY <2>2, <2>3 DEF BookingsBacked, OneSettlement
  <2> QED
    BY <2>4, <2>5
<1>4. ASSUME NEW b \in Booking, NEW t \in TxId, NEW row \in Row, Renames(b, t, row)
      PROVE  RowsMeanMoney' /\ BookingsBacked' /\ OneSettlement'
  <2>1. \A u \in TxId : db'.txs[u] = IF u = t THEN row ELSE db.txs[u]
    BY <1>4, OneRowWritten DEF Renames
  <2>2. row.bk = b /\ row.status = "SUCCESSFUL" /\ ~row.dup /\ db'.booking = db.booking
        /\ db.txs[t] # NoRow /\ db.txs[t].bk = b /\ db.txs[t].status = "SUCCESSFUL"
    BY <1>4 DEF Renames
  <2>3. \A c \in Booking : Settlements(db', c) = Settlements(db, c)
    BY <1>4, RenamedRows
  <2>4. RowsMeanMoney'
    BY <2>1, <2>2 DEF RowsMeanMoney, Rows
  <2>5. BookingsBacked' /\ OneSettlement'
    BY <2>2, <2>3 DEF BookingsBacked, OneSettlement
  <2> QED
    BY <2>4, <2>5
<1> QED
  BY <1>1, <1>2, <1>3, <1>4 DEF MoneyStep

\* A step that takes no request leaves every request the booking it saw, if all
\* it replaces is an order's id.
LEMMA UntakenExact ==
    ASSUME TypeInv, SnapshotExact, NothingRefunded, db'.booking = db.booking,
           late \subseteq late',
           \A t \in TxId : db.txs[t] # NoRow => SameRow(db.txs[t], db'.txs[t], late'),
           \A p \in Payment : gw'[p].cums = gw[p].cums,
           \A v \in Worker : InCommit(v)' =>
               InCommit(v) /\ req'[v] = req[v] /\ seen'[v] = seen[v]
    PROVE  SnapshotExact' /\ NothingRefunded'
<1>1. ASSUME NEW v \in Worker, InCommit(v)'
      PROVE  /\ seen'[v].booking[req'[v].ev.ref] = db'.booking[req'[v].ev.ref]
             /\ \A t \in TxId : seen'[v].txs[t] # NoRow /\ seen'[v].txs[t].bk = req'[v].ev.ref
                   => SameRow(seen'[v].txs[t], db'.txs[t], late')
  <2>1. InCommit(v) /\ req'[v] = req[v] /\ seen'[v] = seen[v]
    BY <1>1
  <2>2. ASSUME NEW t \in TxId, seen[v].txs[t] # NoRow, seen[v].txs[t].bk = req[v].ev.ref
        PROVE  SameRow(seen[v].txs[t], db'.txs[t], late')
    <3>1. db.txs[t] # NoRow
      BY <2>2 DEF TypeInv, RowsKept
    <3>2. SameRow(seen[v].txs[t], db.txs[t], late) /\ SameRow(db.txs[t], db'.txs[t], late')
      BY <2>1, <2>2, <3>1 DEF SnapshotExact
    <3> QED
      BY <3>2 DEF SameRow
  <2> QED
    BY <2>1, <2>2 DEF SnapshotExact
<1>2. SnapshotExact'
  BY <1>1 DEF SnapshotExact, SameRow
<1> QED
  BY <1>2 DEF NothingRefunded

\* A request that ends with one row of its booking written, or a new one, leaves
\* the other requests the bookings they saw.
LEMMA WrittenExact ==
    ASSUME TypeInv, RowInv, SnapshotExact, NothingRefunded,
           NEW w \in Worker, InCommit(w), NEW r, r.pc # "commit",
           req' = [req EXCEPT ![w] = r], seen' = [seen EXCEPT ![w] = Blank], gw' = gw,
           late' = late, NEW t \in TxId, NEW row, db'.txs = [db.txs EXCEPT ![t] = row],
           db.txs[t] = NoRow \/ db.txs[t].bk = req[w].ev.ref,
           \A c \in Booking : c # req[w].ev.ref => db'.booking[c] = db.booking[c]
    PROVE  SnapshotExact' /\ NothingRefunded'
<1>1. \A u \in TxId : db'.txs[u] = IF u = t THEN row ELSE db.txs[u]
  BY OneRowWritten
<1>2. \A v \in Worker : InCommit(v)' =>
          InCommit(v) /\ v # w /\ req'[v] = req[v] /\ seen'[v] = seen[v]
  BY DEF InCommit, TypeInv, TypeOK
<1>3. ASSUME NEW v \in Worker, InCommit(v)'
      PROVE  /\ seen'[v].booking[req'[v].ev.ref] = db'.booking[req'[v].ev.ref]
             /\ \A u \in TxId : seen'[v].txs[u] # NoRow /\ seen'[v].txs[u].bk = req'[v].ev.ref
                   => SameRow(seen'[v].txs[u], db'.txs[u], late')
  <2>1. InCommit(v) /\ v # w /\ req'[v] = req[v] /\ seen'[v] = seen[v]
    BY <1>2, <1>3
  <2>2. req[v].ev.ref # req[w].ev.ref /\ req[v].ev.ref \in Booking
    BY <2>1 DEF RowInv, OnePerBooking, BookingNamed
  <2>3. ASSUME NEW u \in TxId, seen[v].txs[u] # NoRow, seen[v].txs[u].bk = req[v].ev.ref
        PROVE  SameRow(seen[v].txs[u], db'.txs[u], late')
    <3>1. db.txs[u] # NoRow /\ db.txs[u].bk = req[v].ev.ref
      BY <2>1, <2>3 DEF TypeInv, RowsKept, RowInv, SnapshotFresh
    <3>2. u # t
      BY <2>2, <3>1
    <3> QED
      BY <1>1, <2>1, <2>3, <3>2 DEF SnapshotExact
  <2> QED
    BY <2>1, <2>2, <2>3 DEF SnapshotExact
<1>4. SnapshotExact'
  BY <1>3 DEF SnapshotExact, SameRow
<1> QED
  BY <1>2, <1>4 DEF NothingRefunded

\* What a request that finishes sees is so.
LEMMA Exact ==
    ASSUME TypeInv, RowInv, SnapshotExact, NEW w \in Worker, InCommit(w),
           NEW asked \in BOOLEAN, NEW t \in Resolved(seen[w], req[w].ev, asked),
           NEW b \in ResolvedBooking(seen[w], req[w].ev, t)
    PROVE  /\ b \in Booking /\ b = req[w].ev.ref /\ seen[w].booking[b] = db.booking[b]
           /\ t # 0 => /\ t \in TxId /\ seen[w].txs[t] \in Row /\ db.txs[t] \in Row
                       /\ seen[w].txs[t].bk = b /\ db.txs[t].bk = b
                       /\ SameRow(seen[w].txs[t], db.txs[t], late)
<1>1. t # 0 => t \in TxId /\ seen[w].txs[t] \in Row /\ db.txs[t] \in Row /\ seen[w].txs[t] # NoRow
  BY Handling, RowIsRow
<1>2. /\ b \in Booking /\ b = req[w].ev.ref
      /\ t # 0 => seen[w].txs[t].bk = b /\ db.txs[t].bk = b
  BY Fresh
<1> QED
  BY <1>1, <1>2 DEF SnapshotExact

\* Any request that ends without touching the ledger.
LEMMA ReturnExact ==
    ASSUME TypeInv, MoneyInv, NEW w \in Worker, Return(w), db'.txs = db.txs,
           db'.booking = db.booking, gw' = gw, late' = late
    PROVE  MoneyStep /\ SnapshotExact' /\ NothingRefunded'
<1>1. \A v \in Worker : InCommit(v)' =>
          InCommit(v) /\ req'[v] = req[v] /\ seen'[v] = seen[v]
  BY DEF Return, Idle, InCommit, TypeInv, TypeOK
<1>2. \A t \in TxId : SameRow(db.txs[t], db'.txs[t], late')
  BY DEF SameRow
<1>3. MoneyStep
  BY DEF MoneyStep, Quiet, QuietRow
<1> QED
  BY <1>1, <1>2, <1>3, UntakenExact DEF MoneyInv

\* The first payment settles its booking.
LEMMA ConfirmSettles ==
    ASSUME TypeInv, TypeInv', RowInv, MoneyInv, NEW w \in Worker, InCommit(w),
           NEW asked \in BOOLEAN, NEW t \in Resolved(seen[w], req[w].ev, asked),
           NEW b \in ResolvedBooking(seen[w], req[w].ev, t),
           FinishConfirm(w, seen[w], req[w].ev, t, b)
    PROVE  MoneyStep /\ SnapshotExact' /\ NothingRefunded'
<1> DEFINE e == req[w].ev  cur == db.txs[t]  old == seen[w].txs[t]
           row == SettledRow(old, e, b)  upd == Update(cur, old, row)
           r == [pc |-> "dispatch", ev |-> e, tx |-> t]
<1>1. /\ b \in Booking /\ b = e.ref /\ seen[w].booking[b] = db.booking[b]
      /\ t # 0 /\ t \in TxId /\ old \in Row /\ cur \in Row /\ cur.bk = b /\ old.bk = b
      /\ SameRow(old, cur, late)
  BY Exact DEF FinishConfirm, MoneyInv
<1>2. db.booking[b] # "CONFIRMED" /\ seen[w].booking[b] # "CONFIRMED"
  BY <1>1 DEF FinishConfirm, Confirms
<1>3. cur.status # "SUCCESSFUL" /\ ~cur.dup /\ old.status # "SUCCESSFUL"
  BY <1>1, <1>2, Unsettled, RowIsRow DEF MoneyInv, SameRow
<1>4. e.pay \in Payment
  BY Handling, EventIds DEF TypeInv
<1>5. row.bk = b /\ row.status = "SUCCESSFUL" /\ row.gpid = e.pay
  BY <1>1 DEF SettledRow, Row
<1>6. upd.bk = b /\ upd.status = "SUCCESSFUL" /\ ~upd.dup /\ upd.gpid \in Payment \cup late
  <2> HIDE DEF row, cur, old
  <2> QED
    BY <1>1, <1>3, <1>4, <1>5, IdAssumption DEF Update, Column, SameRow
<1>7. /\ GatewayIdFree(t, upd.gpid) /\ gw' = gw /\ late' = late
      /\ db' = [txs |-> [db.txs EXCEPT ![t] = upd], booking |-> SetBooking(b, "CONFIRMED")]
      /\ req' = [req EXCEPT ![w] = r] /\ seen' = [seen EXCEPT ![w] = Blank]
  BY DEF FinishConfirm, Confirmed, gateway
<1>8. db'.booking = [db.booking EXCEPT ![b] = "CONFIRMED"]
  BY <1>2, <1>7 DEF SetBooking
<1>9. r.pc # "commit"
  OBVIOUS
<1> HIDE DEF upd, r, row, cur
<1>10. upd \in Row
  <2>1. db'.txs[t] = upd /\ db'.txs[t] \in Row \cup {NoRow}
    BY <1>1, <1>7 DEF TypeInv, TypeOK, Table
  <2> QED
    BY <1>6, <2>1 DEF NoRow
<1>11. Settles(b, t, upd)
  BY <1>1, <1>2, <1>6, <1>7, <1>8 DEF Settles, cur
<1>12. \A c \in Booking : c # e.ref => db'.booking[c] = db.booking[c]
  BY <1>1, <1>8 DEF TypeInv, TypeOK, Table
<1>13. MoneyStep
  BY <1>1, <1>10, <1>11 DEF MoneyStep
<1> QED
  BY <1>1, <1>7, <1>9, <1>12, <1>13, WrittenExact DEF MoneyInv, cur

\* So does a payment no row was made for.
LEMMA ConfirmUnmatchedSettles ==
    ASSUME TypeInv, TypeInv', RowInv, MoneyInv, NEW w \in Worker, InCommit(w),
           NEW asked \in BOOLEAN, NEW t \in Resolved(seen[w], req[w].ev, asked),
           NEW b \in ResolvedBooking(seen[w], req[w].ev, t),
           FinishConfirmUnmatched(w, seen[w], req[w].ev, t, b, asked)
    PROVE  MoneyStep /\ SnapshotExact' /\ NothingRefunded'
<1> DEFINE e == req[w].ev
           new == NewRow(b, "PENDING", OrderOf(e), RawResponse(e), FALSE)
           row == SettledRow(new, e, b)
<1>1. PICK n \in TxId : FreeRow(n) /\ Confirmed(w, e, n, b, row)
  BY DEF FinishConfirmUnmatched
<1> DEFINE r == [pc |-> "dispatch", ev |-> e, tx |-> n]
<1>2. b \in Booking /\ b = e.ref /\ seen[w].booking[b] = db.booking[b]
  BY Exact DEF MoneyInv
<1>3. db.booking[b] # "CONFIRMED" /\ seen[w].booking[b] # "CONFIRMED"
  BY <1>2 DEF FinishConfirmUnmatched, Confirms
<1>4. e.pay \in Payment
  BY Handling, EventIds DEF TypeInv
<1>5. row.bk = b /\ row.status = "SUCCESSFUL" /\ ~row.dup /\ row.gpid = e.pay
  BY DEF SettledRow, NewRow
<1>6. /\ GatewayIdFree(n, row.gpid) /\ gw' = gw /\ late' = late /\ db.txs[n] = NoRow
      /\ db' = [txs |-> [db.txs EXCEPT ![n] = row], booking |-> SetBooking(b, "CONFIRMED")]
      /\ req' = [req EXCEPT ![w] = r] /\ seen' = [seen EXCEPT ![w] = Blank]
  BY <1>1 DEF Confirmed, FreeRow, gateway
<1>7. db'.booking = [db.booking EXCEPT ![b] = "CONFIRMED"]
  BY <1>3, <1>6 DEF SetBooking
<1>8. r.pc # "commit"
  OBVIOUS
<1> HIDE DEF row, r
<1>9. row \in Row
  <2>1. db'.txs[n] = row /\ db'.txs[n] \in Row \cup {NoRow}
    BY <1>6 DEF TypeInv, TypeOK, Table
  <2> QED
    BY <1>5, <2>1 DEF NoRow
<1>10. Settles(b, n, row)
  BY <1>3, <1>4, <1>5, <1>6, <1>7 DEF Settles
<1>11. \A c \in Booking : c # e.ref => db'.booking[c] = db.booking[c]
  BY <1>2, <1>7 DEF TypeInv, TypeOK, Table
<1>12. MoneyStep
  BY <1>2, <1>9, <1>10 DEF MoneyStep
<1> QED
  BY <1>6, <1>8, <1>11, <1>12, WrittenExact DEF MoneyInv

\* Any other payment is set aside.
LEMMA DuplicateSetsAside ==
    ASSUME TypeInv, TypeInv', RowInv, MoneyInv, NEW w \in Worker, InCommit(w),
           NEW asked \in BOOLEAN, NEW t \in Resolved(seen[w], req[w].ev, asked),
           NEW b \in ResolvedBooking(seen[w], req[w].ev, t),
           FinishDuplicate(w, seen[w], req[w].ev, t, b, asked)
    PROVE  MoneyStep /\ SnapshotExact' /\ NothingRefunded'
<1> DEFINE e == req[w].ev
           row == NewRow(b, "SUCCESSFUL", e.pay, RawResponse(e), TRUE)
<1>1. PICK n \in TxId :
          FreeRow(n) /\ GatewayIdFree(n, e.pay) /\ db' = [db EXCEPT !.txs[n] = row]
  BY DEF FinishDuplicate
<1>2. b \in Booking /\ b = e.ref /\ seen[w].booking[b] = db.booking[b]
  BY Exact DEF MoneyInv
<1>3. db.booking[b] = "CONFIRMED"
  BY <1>2 DEF FinishDuplicate, Repeats
<1>4. e.pay \in Payment
  BY Handling, EventIds DEF TypeInv
<1>5. row.bk = b /\ row.status = "SUCCESSFUL" /\ row.dup /\ row.gpid = e.pay
  BY DEF NewRow
<1> HIDE DEF row
<1>6. db'.txs = [db.txs EXCEPT ![n] = row] /\ db'.booking = db.booking /\ db.txs[n] = NoRow
  BY <1>1 DEF FreeRow, TypeInv, TypeOK, Table
<1>7. req' = [req EXCEPT ![w] = Idle] /\ seen' = [seen EXCEPT ![w] = Blank]
      /\ gw' = gw /\ late' = late
  BY DEF FinishDuplicate, Return, gateway
<1>8. Idle.pc # "commit"
  BY DEF Idle
<1>9. row \in Row
  <2>1. db'.txs[n] = row /\ db'.txs[n] \in Row \cup {NoRow}
    BY <1>6 DEF TypeInv, TypeOK, Table
  <2> QED
    BY <1>5, <2>1 DEF NoRow
<1>10. SetsAside(b, n, row)
  BY <1>1, <1>3, <1>4, <1>5, <1>6 DEF SetsAside
<1>11. MoneyStep
  BY <1>2, <1>9, <1>10 DEF MoneyStep
<1> QED
  BY <1>6, <1>7, <1>8, <1>11, WrittenExact DEF MoneyInv

\* An attempt or an authorization moves no money: its row had none.
LEMMA WriteRowQuiet ==
    ASSUME TypeInv, RowInv, MoneyInv, NEW w \in Worker, InCommit(w),
           NEW asked \in BOOLEAN, NEW t \in Resolved(seen[w], req[w].ev, asked), t # 0,
           NEW b \in ResolvedBooking(seen[w], req[w].ev, t),
           seen[w].txs[t].status # "SUCCESSFUL",
           NEW row, row.status \in {"PROCESSING", "FAILED"}, NEW B,
           Commit(w, req[w].ev, WriteRow(seen[w], t, row), db.booking, B)
    PROVE  MoneyStep /\ SnapshotExact' /\ NothingRefunded'
<1> DEFINE cur == db.txs[t]  old == seen[w].txs[t]  upd == Update(cur, old, row)
<1>1. t \in TxId /\ cur \in Row /\ old \in Row /\ cur.bk = req[w].ev.ref /\ SameRow(old, cur, late)
  BY Exact DEF MoneyInv
<1>2. cur # NoRow /\ cur.status # "SUCCESSFUL" /\ ~cur.dup
  BY <1>1, RowIsRow DEF SameRow, MoneyInv, RowsMeanMoney, Rows
<1>3. upd.status \in {"PROCESSING", "FAILED"} /\ ~upd.dup
  <2> HIDE DEF cur, old
  <2> QED
    BY <1>1, <1>2 DEF Update, Column, SameRow
<1>4. /\ db'.txs = [db.txs EXCEPT ![t] = upd] /\ db'.booking = db.booking /\ gw' = gw
      /\ req' = [req EXCEPT ![w] = Idle] /\ seen' = [seen EXCEPT ![w] = Blank] /\ late' = late
  BY DEF Commit, Return, WriteRow, gateway
<1>5. Idle.pc # "commit"
  BY DEF Idle
<1> HIDE DEF upd
<1>6. \A u \in TxId : db'.txs[u] = IF u = t THEN upd ELSE db.txs[u]
  BY <1>1, <1>4, OneRowWritten
<1>7. Quiet
  BY <1>2, <1>3, <1>4, <1>6 DEF Quiet, QuietRow, Moneyless, NoRow
<1> QED
  BY <1>1, <1>4, <1>5, <1>7, WrittenExact DEF MoneyInv, MoneyStep

\* Every outcome of a request.
LEMMA FinishMoney ==
    ASSUME TypeInv, TypeInv', RowInv, MoneyInv, NEW w \in Worker, Finish(w)
    PROVE  MoneyStep /\ SnapshotExact' /\ NothingRefunded'
<1> DEFINE s == seen[w]  e == req[w].ev
<1>1. InCommit(w) /\ e.kind # "refund"
  BY FinishOutcomes DEF MoneyInv, NothingRefunded
<1>2. PICK asked, t :
        /\ asked \in BOOLEAN /\ t \in Resolved(s, e, asked)
        /\ \/ Rollback(w)
           \/ /\ ~Unmatched(s, e, t, asked)
              /\ \E b \in ResolvedBooking(s, e, t) :
                   \/ FinishConfirm(w, s, e, t, b)
                   \/ FinishConfirmUnmatched(w, s, e, t, b, asked)
                   \/ FinishReplay(w, s, e, t, b)
                   \/ FinishDuplicate(w, s, e, t, b, asked)
                   \/ FinishAuthorized(w, s, e, t, b)
                   \/ FinishFailed(w, s, e, t)
                   \/ FinishRefund(w, s, e, t, b)
                   \/ FinishInvalidRefund(w, s, e, t)
  BY FinishOutcomes
<1>3. CASE Rollback(w)
  BY <1>3, ReturnExact DEF Rollback, ledger, gateway
<1>4. ASSUME NEW b \in ResolvedBooking(s, e, t), FinishReplay(w, s, e, t, b)
      PROVE  MoneyStep /\ SnapshotExact' /\ NothingRefunded'
  BY <1>4, ReturnExact DEF FinishReplay, ledger, gateway
<1>5. ASSUME NEW b \in ResolvedBooking(s, e, t), FinishAuthorized(w, s, e, t, b)
      PROVE  MoneyStep /\ SnapshotExact' /\ NothingRefunded'
  <2> DEFINE old == s.txs[t]
             row == [old EXCEPT !.status = "PROCESSING", !.gpid = e.pay, !.resp = RawResponse(e)]
  <2>1. CASE t # 0 /\ old.status = "PENDING"
    <3>1. old \in Row
      BY <1>1, <1>2, <2>1, Handling
    <3>2. row.status = "PROCESSING"
      BY <3>1 DEF Row
    <3>3. Commit(w, e, WriteRow(s, t, row), db.booking, {b})
      BY <1>5, <2>1 DEF FinishAuthorized
    <3> HIDE DEF row
    <3> QED
      BY <1>1, <1>2, <2>1, <3>2, <3>3, WriteRowQuiet
  <2>2. CASE ~(t # 0 /\ old.status = "PENDING")
    BY <1>5, <2>2, ReturnExact DEF FinishAuthorized, Commit, gateway
  <2> QED
    BY <2>1, <2>2
<1>6. ASSUME NEW b \in ResolvedBooking(s, e, t), FinishFailed(w, s, e, t)
      PROVE  MoneyStep /\ SnapshotExact' /\ NothingRefunded'
  <2> DEFINE old == s.txs[t]
             row == [old EXCEPT !.status = "FAILED", !.resp = RawResponse(e)]
  <2>1. CASE old.status # "SUCCESSFUL"
    <3>1. t # 0 /\ old \in Row
      BY <1>1, <1>2, <1>6, Handling DEF FinishFailed
    <3>2. row.status = "FAILED"
      BY <3>1 DEF Row
    <3>3. Commit(w, e, WriteRow(s, t, row), db.booking, {})
      BY <1>6, <2>1 DEF FinishFailed
    <3> HIDE DEF row
    <3> QED
      BY <1>1, <1>2, <2>1, <3>1, <3>2, <3>3, WriteRowQuiet
  <2>2. CASE old.status = "SUCCESSFUL"
    BY <1>6, <2>2, ReturnExact DEF FinishFailed, Commit, gateway
  <2> QED
    BY <2>1, <2>2
<1> QED
  BY <1>1, <1>2, <1>3, <1>4, <1>5, <1>6, ConfirmSettles, ConfirmUnmatchedSettles,
     DuplicateSetsAside DEF FinishRefund, FinishInvalidRefund

\* What a request loads when it is taken is what the ledger holds; no refund
\* event was sent.
LEMMA BeginExact ==
    ASSUME TypeInv, MoneyInv, NEW w \in Worker, NEW e \in Event, Begin(w, e)
    PROVE  MoneyStep /\ SnapshotExact' /\ NothingRefunded'
<1>1. /\ db' = db /\ gw' = gw /\ late' = late
      /\ \A v \in Worker : /\ req'[v] = IF v = w THEN [pc |-> "commit", ev |-> e] ELSE req[v]
                           /\ seen'[v] = IF v = w THEN db ELSE seen[v]
  BY DEF Begin, TypeInv, TypeOK, ledger, gateway
<1>2. e.kind # "refund"
  <2>1. e.kind = "refund" => e.cum \in gw[e.pay].cums
    BY Zenon DEF Begin, Emitted
  <2> QED
    BY <2>1 DEF MoneyInv, NothingRefunded, Event
<1>3. \A row : SameRow(row, row, late)
  BY DEF SameRow
<1>4. SnapshotExact'
  BY <1>1, <1>3 DEF MoneyInv, SnapshotExact, InCommit
<1>5. NothingRefunded'
  BY <1>1, <1>2 DEF MoneyInv, NothingRefunded, InCommit
<1>6. MoneyStep
  BY <1>1 DEF MoneyStep, Quiet, QuietRow
<1> QED
  BY <1>4, <1>5, <1>6

\* Storing an order moves no money; a late one renames the settlement.
LEMMA PersistOrderExact ==
    ASSUME TypeInv, MoneyInv, NEW o \in Order, PersistOrder(o)
    PROVE  MoneyStep /\ SnapshotExact' /\ NothingRefunded'
<1>1. UNCHANGED <<req, seen, gw>>
  BY DEF PersistOrder
<1>2. PICK t \in TxId, row \in Row :
          /\ db' = [txs |-> [db.txs EXCEPT ![t] = row], booking |-> db.booking]
          /\ PlacesNew(o, t, row) \/ PlacesOver(o, t, row)
          /\ row.bk = owner[o] /\ row.gpid = o /\ ~row.dup
  BY PlacedRow
<1>3. /\ db'.booking = db.booking
      /\ db'.txs = [db.txs EXCEPT ![t] = row]
      /\ \A u \in TxId : db'.txs[u] = IF u = t THEN row ELSE db.txs[u]
  BY <1>2, OneRowWritten
<1>4. row # NoRow /\ owner[o] \in Booking
  BY RowIsRow, PlacedRow
<1>5. CASE PlacesNew(o, t, row)
  <2>1. db.txs[t] = NoRow /\ row.status = "PENDING" /\ late' = late
    BY <1>5 DEF PlacesNew, NewRow, FreeRow
  <2>2. Quiet
    BY <1>2, <1>3, <1>4, <2>1 DEF Quiet, QuietRow, Moneyless
  <2>3. \A u \in TxId : db.txs[u] # NoRow => SameRow(db.txs[u], db'.txs[u], late')
    BY <1>3, <2>1 DEF SameRow
  <2> QED
    BY <1>1, <1>3, <2>1, <2>2, <2>3, UntakenExact DEF MoneyInv, MoneyStep, InCommit
<1>6. CASE PlacesOver(o, t, row)
  <2> DEFINE old == db.txs[t]
  <2>1. /\ old \in Row /\ old.bk = owner[o] /\ ~old.dup
        /\ row = [old EXCEPT !.gpid = o, !.resp = OrderResponse(o)]
        /\ late' = IF old.status = "PENDING" THEN late ELSE late \cup {o}
    BY <1>6 DEF PlacesOver
  <2>2. row.status = old.status /\ old # NoRow
    BY <2>1, RowIsRow DEF Row
  <2>3. old.status = "PENDING" => old.gpid \in Order
    BY <2>2 DEF MoneyInv, RowsMeanMoney, Rows
  <2>4. \A u \in TxId : db.txs[u] # NoRow => SameRow(db.txs[u], db'.txs[u], late')
    <3>1. SameRow(old, row, late')
      <4> HIDE DEF old
      <4> QED
        BY <1>2, <2>1, <2>2, <2>3 DEF SameRow
    <3> QED
      BY <1>3, <3>1 DEF SameRow
  <2>5. MoneyStep
    <3>1. CASE old.status = "SUCCESSFUL"
      <4>1. o \in late' \cap Order
        BY <2>1, <3>1
      <4>2. Renames(owner[o], t, row)
        BY <1>2, <1>3, <2>1, <2>2, <3>1, <4>1 DEF Renames
      <4> QED
        BY <1>4, <4>2 DEF MoneyStep
    <3>2. CASE old.status # "SUCCESSFUL"
      <4>1. Quiet
        BY <1>2, <1>3, <1>4, <2>1, <2>2, <3>2 DEF Quiet, QuietRow, Moneyless
      <4> QED
        BY <4>1 DEF MoneyStep
    <3> QED
      BY <3>1, <3>2
  <2>6. late \subseteq late'
    BY <2>1
  <2> QED
    BY <1>1, <1>3, <2>4, <2>5, <2>6, UntakenExact DEF MoneyInv, InCommit
<1> QED
  BY <1>2, <1>5, <1>6

\* Every step does to the money one of the four things.
LEMMA PayMoney ==
    ASSUME TypeInv, TypeInv', RowInv, MoneyInv, [PayNext]_vars
    PROVE  MoneyStep /\ SnapshotExact' /\ NothingRefunded'
<1>1. CASE \E e \in Event : Deliver(e)
  BY <1>1, BeginExact DEF Deliver
<1>2. CASE \E w \in Worker : Finish(w)
  BY <1>2, FinishMoney
<1>3. CASE \E w \in Worker : Dispatch(w)
  BY <1>3, ReturnExact DEF Dispatch, ledger, gateway
<1>4. CASE \E o \in Order : PersistOrder(o)
  BY <1>4, PersistOrderExact
<1>5. ASSUME db' = db, late' = late, \A p \in Payment : gw'[p].cums = gw[p].cums,
             \A v \in Worker : InCommit(v)' =>
               InCommit(v) /\ req'[v] = req[v] /\ seen'[v] = seen[v]
      PROVE  MoneyStep /\ SnapshotExact' /\ NothingRefunded'
  <2>1. \A t \in TxId : SameRow(db.txs[t], db'.txs[t], late')
    BY <1>5 DEF SameRow
  <2>2. MoneyStep
    BY <1>5 DEF MoneyStep, Quiet, QuietRow
  <2> QED
    BY <1>5, <2>1, <2>2, UntakenExact DEF MoneyInv
<1>6. CASE Crash
  <2>1. Idle.pc # "commit"
    BY DEF Idle
  <2> QED
    BY <1>5, <1>6, <2>1 DEF Crash, ledger, gateway, InCommit
<1>7. CASE \/ \E p \in Payment, o \in Order, st \in {"authorized", "failed"} : Attempt(p, o, st)
           \/ \E p \in Payment : Capture(p)
  <2>1. db' = db /\ UNCHANGED <<req, seen, late>>
    BY <1>7 DEF Attempt, Capture, ledger, server
  <2>2. \A p \in Payment : gw'[p].cums = gw[p].cums
    <3>1. gw \in [Payment -> GatewayPayment]
      BY DEF TypeInv, TypeOK
    <3>2. ASSUME NEW q \in Payment, NEW o \in Order, NEW st, Attempt(q, o, st)
          PROVE  \A p \in Payment : gw'[p].cums = gw[p].cums
      BY <3>1, <3>2 DEF Attempt, GatewayPayment
    <3>3. ASSUME NEW q \in Payment, Capture(q)
          PROVE  \A p \in Payment : gw'[p].cums = gw[p].cums
      BY <3>1, <3>3 DEF Capture, GatewayPayment
    <3> QED
      BY <1>7, <3>2, <3>3
  <2> QED
    BY <1>5, <2>1, <2>2 DEF InCommit
<1>8. CASE UNCHANGED <<db, req, seen, gw, late>>
  BY <1>5, <1>8 DEF InCommit
<1> QED
  BY <1>1, <1>2, <1>3, <1>4, <1>6, <1>7, <1>8
  DEF PayNext, AckDuplicate, CreateOrder, ChooseRow, Fulfil, ledger, gateway, vars

\* The invariant of the money is inductive.
LEMMA NextMoney ==
    TypeInv /\ TypeInv' /\ RowInv /\ MoneyInv /\ [PayNext]_vars => MoneyInv' /\ MoneyStep
BY PayMoney, MoneyStepKeeps DEF MoneyInv

\* Nothing is paid at first.
LEMMA InitMoney == Init => MoneyInv
<1>1. Idle.pc # "commit"
  BY DEF Idle
<1>2. Init => \A b \in Booking : db.booking[b] = "PENDING" /\ Settlements(db, b) = {}
  BY DEF Init, Blank, Settlements, RowsOf
<1> QED
  BY <1>1, <1>2 DEF Init, MoneyInv, NothingRefunded, RowsMeanMoney, BookingsBacked, OneSettlement,
              SnapshotExact, Rows, Blank, InCommit

\* The inductive invariant of the money.
THEOREM MoneyInvariant ==
    ASSUME UnkeyedKinds = {}
    PROVE  PaySpec => [](TypeInv /\ RowInv /\ MoneyInv)
<1>1. [PayNext]_vars => [Next]_vars
  BY DEF Next
<1>2. PaySpec => Spec
  BY <1>1, PTL DEF PaySpec, Spec
<1>3. TypeInv /\ TypeInv' /\ RowInv /\ MoneyInv /\ [PayNext]_vars => MoneyInv'
  BY NextMoney
<1> QED
  BY <1>2, <1>3, InitMoney, TypeInvariant, RowInvariant, PTL DEF PaySpec

\* However many events of however many payments race for a booking through
\* however many processes, at most one row settles it (the advisory lock and the
\* check of handle_verified_payment under it).
THEOREM OneSettlementTheorem ==
    ASSUME UnkeyedKinds = {}
    PROVE  PaySpec => []OneSettlement
<1>1. MoneyInv => OneSettlement
  BY DEF MoneyInv
<1> QED
  BY <1>1, MoneyInvariant, PTL

\* No booking is CONFIRMED without the money: the anomaly
\* CONFIRMED_WITHOUT_PAYMENT of the reconciliation report never arises here.
THEOREM ConfirmedBackedTheorem ==
    ASSUME UnkeyedKinds = {}
    PROVE  PaySpec => []ConfirmedBacked
<1>1. MoneyInv => ConfirmedBacked
  BY DEF MoneyInv, BookingsBacked, ConfirmedBacked, Settlements
<1> QED
  BY <1>1, MoneyInvariant, PTL

-----------------------------------------------------------------------------
(* The core implements its promise.                                        *)

Money == <<[b \in Booking |-> {db.txs[t].gpid : t \in Settlements(db, b)}],
           {db.txs[t].gpid : t \in {u \in Rows : db.txs[u].dup}},
           {b \in Booking : db.booking[b] = "CONFIRMED"}>>

\* A quiet step is a stutter of BookingLedger, the others are its three actions.
LEMMA QuietStutters ==
    ASSUME TypeInv, TypeInv', Quiet
    PROVE  UNCHANGED Money
<1>1. \A b \in Booking : {db'.txs[t].gpid : t \in Settlements(db', b)}
                       = {db.txs[t].gpid : t \in Settlements(db, b)}
  BY QuietRows
<1>2. {db'.txs[t].gpid : t \in {u \in Rows' : db'.txs[u].dup}}
    = {db.txs[t].gpid : t \in {u \in Rows : db.txs[u].dup}}
  BY QuietRows
<1>3. db'.booking = db.booking
  BY DEF Quiet
<1> QED
  BY <1>1, <1>2, <1>3 DEF Money

\* An id no other row has is not yet in the promise's books.
LEMMA FreeUnknown ==
    ASSUME TypeInv, NEW t \in TxId, NEW p, GatewayIdFree(t, p),
           \A c \in Booking : t \notin Settlements(db, c),
           \A u \in Rows : db.txs[u].dup => u # t
    PROVE  Promise!Unknown(p)
BY DEF Promise!Unknown, GatewayIdFree, Rows, Settlements, RowsOf

\* A step that settles is the promise's Settle.
LEMMA SettlesSettles ==
    ASSUME TypeInv, TypeInv', MoneyInv, NEW b \in Booking, NEW t \in TxId, NEW row \in Row,
           Settles(b, t, row)
    PROVE  Promise!Settle(b, row.gpid) /\ row.gpid \in Payment \cup late
<1> DEFINE p == row.gpid
<1>1. /\ Settlements(db, b) = {} /\ Settlements(db', b) = {t}
      /\ \A c \in Booking \ {b} : Settlements(db', c) = Settlements(db, c)
      /\ \A c \in Booking \ {b} : t \notin Settlements(db, c)
      /\ {u \in Rows' : db'.txs[u].dup} = {u \in Rows : db.txs[u].dup}
      /\ \A u \in Rows : db.txs[u].dup => u # t
  BY SettledRows DEF MoneyInv
<1>2. \A u \in TxId : db'.txs[u] = IF u = t THEN row ELSE db.txs[u]
  BY OneRowWritten DEF Settles
<1>3. Promise!Unknown(p) /\ p \in Payment \cup late
  <2>1. GatewayIdFree(t, p) /\ p \in Payment \cup late
    BY DEF Settles
  <2> HIDE DEF p
  <2> QED
    BY <1>1, <2>1, FreeUnknown
<1>4. {db.txs[u].gpid : u \in Settlements(db, b)} = {}
  BY <1>1
<1>5. {db'.txs[u].gpid : u \in Settlements(db', b)} = {p}
  BY <1>1, <1>2
<1>6. \A c \in Booking \ {b} : {db'.txs[u].gpid : u \in Settlements(db', c)}
                             = {db.txs[u].gpid : u \in Settlements(db, c)}
  <2>1. \A c \in Booking \ {b} : \A u \in Settlements(db, c) : db'.txs[u] = db.txs[u]
    BY <1>1, <1>2 DEF Settlements, RowsOf
  <2> QED
    BY <1>1, <2>1
<1>7. {db'.txs[u].gpid : u \in {v \in Rows' : db'.txs[v].dup}}
    = {db.txs[u].gpid : u \in {v \in Rows : db.txs[v].dup}}
  <2>1. \A u \in {v \in Rows : db.txs[v].dup} : db'.txs[u] = db.txs[u]
    BY <1>1, <1>2 DEF Rows
  <2> QED
    BY <1>1, <2>1
<1>8. {c \in Booking : db'.booking[c] = "CONFIRMED"}
    = {c \in Booking : db.booking[c] = "CONFIRMED"} \cup {b}
  BY DEF Settles, TypeInv, TypeOK, Table
<1> QED
  BY <1>3, <1>4, <1>5, <1>6, <1>7, <1>8 DEF Promise!Settle

\* A step that sets aside is the promise's SetAside.
LEMMA SetsAsideSetsAside ==
    ASSUME TypeInv, TypeInv', MoneyInv, NEW b \in Booking, NEW t \in TxId, NEW row \in Row,
           SetsAside(b, t, row)
    PROVE  Promise!SetAside(b, row.gpid) /\ row.gpid \in Payment
<1> DEFINE p == row.gpid
<1>1. /\ \A c \in Booking : Settlements(db', c) = Settlements(db, c)
      /\ \A c \in Booking : t \notin Settlements(db, c)
      /\ {u \in Rows' : db'.txs[u].dup} = {u \in Rows : db.txs[u].dup} \cup {t}
      /\ t \notin Rows
  BY AsideRows
<1>2. \A u \in TxId : db'.txs[u] = IF u = t THEN row ELSE db.txs[u]
  BY OneRowWritten DEF SetsAside
<1>3. Promise!Unknown(p) /\ p \in Payment
  <2>1. GatewayIdFree(t, p) /\ p \in Payment
    BY DEF SetsAside
  <2> HIDE DEF p
  <2> QED
    BY <1>1, <2>1, FreeUnknown
<1>4. {db.txs[u].gpid : u \in Settlements(db, b)} # {}
  <2>1. Settlements(db, b) # {}
    BY DEF SetsAside, MoneyInv, BookingsBacked
  <2> QED
    BY <2>1
<1>5. \A c \in Booking : {db'.txs[u].gpid : u \in Settlements(db', c)}
                       = {db.txs[u].gpid : u \in Settlements(db, c)}
  <2>1. \A c \in Booking : \A u \in Settlements(db, c) : db'.txs[u] = db.txs[u]
    BY <1>1, <1>2 DEF Settlements, RowsOf
  <2> QED
    BY <1>1, <2>1
<1>6. {db'.txs[u].gpid : u \in {v \in Rows' : db'.txs[v].dup}}
    = {db.txs[u].gpid : u \in {v \in Rows : db.txs[v].dup}} \cup {p}
  <2>1. \A u \in {v \in Rows : db.txs[v].dup} : db'.txs[u] = db.txs[u]
    BY <1>1, <1>2 DEF Rows
  <2>2. db'.txs[t] = row
    BY <1>2
  <2> QED
    BY <1>1, <2>1, <2>2
<1>7. db'.booking = db.booking
  BY DEF SetsAside
<1> QED
  BY <1>3, <1>4, <1>5, <1>6, <1>7 DEF Promise!SetAside

\* A step that renames is the promise's Rename.
LEMMA RenamesRenames ==
    ASSUME TypeInv, TypeInv', MoneyInv, NEW b \in Booking, NEW t \in TxId, NEW row \in Row,
           Renames(b, t, row)
    PROVE  Promise!Rename(b, row.gpid) /\ row.gpid \in late' \cap Order
<1> DEFINE o == row.gpid
<1>1. /\ t \in Settlements(db, b)
      /\ \A c \in Booking : Settlements(db', c) = Settlements(db, c)
      /\ \A c \in Booking \ {b} : t \notin Settlements(db, c)
      /\ {u \in Rows' : db'.txs[u].dup} = {u \in Rows : db.txs[u].dup}
      /\ \A u \in Rows : db.txs[u].dup => u # t
  BY RenamedRows
<1>2. \A u \in TxId : db'.txs[u] = IF u = t THEN row ELSE db.txs[u]
  BY OneRowWritten DEF Renames
<1>3. Settlements(db, b) = {t}
  BY <1>1 DEF MoneyInv, OneSettlement
<1>4. {db.txs[u].gpid : u \in Settlements(db, b)} # {}
  BY <1>1
<1>5. {db'.txs[u].gpid : u \in Settlements(db', b)} = {o}
  <2>1. Settlements(db', b) = {t} /\ db'.txs[t] = row
    BY <1>1, <1>2, <1>3
  <2> QED
    BY <2>1
<1>6. \A c \in Booking \ {b} : {db'.txs[u].gpid : u \in Settlements(db', c)}
                             = {db.txs[u].gpid : u \in Settlements(db, c)}
  <2>1. \A c \in Booking \ {b} : \A u \in Settlements(db, c) : db'.txs[u] = db.txs[u]
    BY <1>1, <1>2 DEF Settlements, RowsOf
  <2> QED
    BY <1>1, <2>1
<1>7. {db'.txs[u].gpid : u \in {v \in Rows' : db'.txs[v].dup}}
    = {db.txs[u].gpid : u \in {v \in Rows : db.txs[v].dup}}
  <2>1. \A u \in {v \in Rows : db.txs[v].dup} : db'.txs[u] = db.txs[u]
    BY <1>1, <1>2 DEF Rows
  <2> QED
    BY <1>1, <2>1
<1>8. db'.booking = db.booking /\ o \in late' \cap Order
  BY DEF Renames
<1> QED
  BY <1>4, <1>5, <1>6, <1>7, <1>8 DEF Promise!Rename

\* Without refunds, every run of the core is one of BookingLedger: the first
\* payment of a booking settles it, in one step with the confirmation and for
\* good, if perhaps under the name of a late order; any other payment is set
\* aside once.
THEOREM KeepsPromiseTheorem ==
    ASSUME UnkeyedKinds = {}
    PROVE  PaySpec => KeepsPromise
<1>1. Init => Promise!Init
  BY DEF Init, Promise!Init, Blank, Settlements, RowsOf, Rows
<1>2. TypeInv /\ TypeInv' /\ RowInv /\ MoneyInv /\ [PayNext]_vars => [Promise!Next]_Money
  <2> SUFFICES ASSUME TypeInv, TypeInv', RowInv, MoneyInv, [PayNext]_vars
               PROVE  Promise!Next \/ UNCHANGED Money
    OBVIOUS
  <2>1. MoneyStep
    BY NextMoney
  <2> QED
    BY <2>1, QuietStutters, SettlesSettles, SetsAsideSetsAside, RenamesRenames
    DEF MoneyStep, Promise!Next
<1> QED
  BY <1>1, <1>2, MoneyInvariant, PTL DEF PaySpec, KeepsPromise, Promise!Spec, Money

-----------------------------------------------------------------------------
(* Refunds.  A refund request of the API takes the row's lock and no advisory *)
(* lock, so it changes settled rows under the feet of the event handlers; and *)
(* the handlers rewrite the payment id of rows.  What a Refund row claims     *)
(* stays true because a row money came in on is only ever found again by the  *)
(* ids of its own payment.                                                    *)

Paid(p) == p \in Payment /\ gw[p].st = "captured"
HasMoney(row) == row.status \in Settled \/ row.refunded > 0
Unpaid(row) == row.gpid \in Order /\ row.resp.top \subseteq Order /\ row.resp.payload = {}

\* A request works for an event the instance knows, and a success event for
\* money that is there; an order is captured once.
EventHeld ==
    \A w \in Worker : InCommit(w) =>
        /\ req[w].ev.kind \in Subscribed
        /\ req[w].ev.kind \in SuccessKind => gw[req[w].ev.pay].st = "captured"
CaptureOnce ==
    \A p \in Payment :
        /\ gw[p].st # "none" => gw[p].ord # NoId
        /\ gw[p].st = "captured" => \A q \in Payment : gw[q].st = "captured" /\ gw[q].ord = gw[p].ord => p = q

\* A row that waits for its money has none, and a PENDING one no payment's id;
\* a row with money names the payment, which no other row names.
RowsPaid ==
    \A t \in Rows : LET row == db.txs[t] IN
        /\ row.status \in Open => row.refunded = 0
        /\ row.status = "PENDING" => Unpaid(row)
        /\ HasMoney(row) => Paid(row.gpid)
PaymentOnce ==
    \A t, u \in Rows : db.txs[t].gpid = db.txs[u].gpid /\ db.txs[t].gpid \in Payment => t = u

\* Only a settled row is being refunded.
RefundsSettled == \A t \in TxId : refunding[t] # 0 => db.txs[t].status \in Settled

\* Behind the back of the request that loaded a row of its booking, a PENDING
\* row may be given another order, and a settled one may be refunded.
Follows(old, cur) ==
    IF old.status = "PENDING" THEN cur.status = "PENDING" /\ Unpaid(old)
    ELSE /\ cur.gpid = old.gpid /\ cur.resp = old.resp
         /\ \/ cur.status = old.status
            \/ old.status \in Settled /\ cur.status \in {"PARTIALLY_REFUNDED", "REFUNDED"}
SnapshotFollowed ==
    \A w \in Worker, t \in TxId :
        InCommit(w) /\ seen[w].txs[t] # NoRow /\ seen[w].txs[t].bk = req[w].ev.ref
            => Follows(seen[w].txs[t], db.txs[t])

RefundInv == EventHeld /\ CaptureOnce /\ RowsPaid /\ PaymentOnce /\ RefundsSettled /\ SnapshotFollowed

\* What the Refund rows claim and a refund in flight will, the gateway paid back.
Claims(t) == db.txs[t].refunded + refunding[t]
Backed ==
    \A t \in Rows : Claims(t) > 0 => Claims(t) <= gw[db.txs[t].gpid].refunded

\* The ids on a row with money are those of one order.
OrderBehind(id) == IF id \in Order THEN id ELSE gw[id].ord
OneOrder ==
    \A t \in Rows : HasMoney(db.txs[t]) =>
        \A id \in StoredIds(db.txs[t]) : OrderBehind(id) = gw[db.txs[t].gpid].ord
VerifiedRows ==
    "VERIFY_ENDPOINT" \in Subscribed =>
        \A t \in Rows : db.txs[t].status \in {"PENDING"} \cup Settled

BackedInv == Backed /\ OneOrder /\ VerifiedRows

-----------------------------------------------------------------------------
(* What the handlers write, in these terms.                                *)

Shares(row, e) == StoredIds(row) \cap GatewayIds(e) # {}
\* A row is found by an id it shares with the event, unless it is still open.
LEMMA FoundShares ==
    ASSUME NEW s, NEW e, NEW asked \in BOOLEAN, NEW t \in Resolved(s, e, asked), t # 0,
           s.txs[t].status \notin Open
    PROVE  Shares(s.txs[t], e)
<1>1. \A u \in Found(s, e, asked) : u = 0 \/ Shares(s.txs[u], e) \/ s.txs[u].status \in Open
  BY Lookup DEF Found, ByGatewayId, ByStoredId, ByOpenFallback, Shares, StoredIds
<1>2. \A u : SamePayment(s, e, u) => Shares(s.txs[u], e)
  BY DEF SamePayment, Shares
<1> QED
  BY <1>1, <1>2 DEF Resolved

\* Request w writes row t of its booking, and nobody is refunding that row.
Writes(w, t, row) ==
    /\ db'.txs = [db.txs EXCEPT ![t] = row] /\ row # NoRow
    /\ row.bk = req[w].ev.ref /\ row.bk \in Booking
    /\ db.txs[t] = NoRow \/ db.txs[t].bk = row.bk
    /\ refunding[t] = 0
    /\ UNCHANGED <<refunding, owner, gw>>

\* The row it loaded is still the one it writes.
HasRow(w, t) ==
    LET old == seen[w].txs[t] IN
    /\ old \in Row /\ db.txs[t] \in Row
    /\ old.bk = req[w].ev.ref /\ Follows(old, db.txs[t])
    /\ old.status \notin Open => Shares(old, req[w].ev)

\* The money of the event comes in on the row it loaded, ...
Lands(w, t, row) ==
    LET e == req[w].ev  old == seen[w].txs[t]  cur == db.txs[t] IN
    /\ HasRow(w, t)
    /\ e.kind \in SuccessKind /\ seen[w].booking[e.ref] # "CONFIRMED"
    /\ old.status \notin {"PARTIALLY_REFUNDED", "REFUNDED"}
    /\ GatewayIdFree(t, e.pay)
    /\ row.gpid = e.pay /\ row.resp = MergedResponse(old.resp, e)
    /\ row.status = IF old.status = "SUCCESSFUL" THEN cur.status ELSE "SUCCESSFUL"
    /\ row.refunded = cur.refunded
    /\ db'.booking = [db.booking EXCEPT ![e.ref] = "CONFIRMED"]

\* ... or on a new one;
Inserts(w, t, row) ==
    LET e == req[w].ev IN
    /\ db.txs[t] = NoRow
    /\ e.kind \in SuccessKind /\ GatewayIdFree(t, e.pay)
    /\ row.gpid = e.pay /\ StoredIds(row) \subseteq GatewayIds(e)
    /\ row.status = "SUCCESSFUL" /\ row.refunded = 0
    /\ IF seen[w].booking[e.ref] = "CONFIRMED" THEN db'.booking = db.booking
       ELSE db'.booking = [db.booking EXCEPT ![e.ref] = "CONFIRMED"]

\* an authorization names the payment on a PENDING row, ...
Authorizes(w, t, row) ==
    /\ HasRow(w, t)
    /\ req[w].ev.kind = "payment.authorized" /\ db.txs[t].status = "PENDING"
    /\ GatewayIdFree(t, req[w].ev.pay)
    /\ row.gpid = req[w].ev.pay /\ row.status = "PROCESSING"
    /\ row.refunded = db.txs[t].refunded
    /\ db'.booking = db.booking

\* a failed attempt leaves its ids on the row, ...
Fails(w, t, row) ==
    /\ HasRow(w, t)
    /\ req[w].ev.kind = "payment.failed"
    /\ row.gpid = db.txs[t].gpid /\ row.status = "FAILED"
    /\ \/ row.resp = RawResponse(req[w].ev) \/ row.resp = db.txs[t].resp
    /\ row.refunded = db.txs[t].refunded
    /\ db'.booking = db.booking

\* and a refund event changes the status, and cancels the booking if it is full.
Refunds(w, t, row, full) ==
    LET old == seen[w].txs[t]  cur == db.txs[t]  b == req[w].ev.ref IN
    /\ HasRow(w, t)
    /\ old.status \in Settled
    /\ row.gpid = cur.gpid /\ row.resp = cur.resp /\ row.refunded = cur.refunded
    /\ row.status = Column(cur.status, old.status,
                           IF full THEN "REFUNDED" ELSE "PARTIALLY_REFUNDED")
    /\ db'.booking = IF full THEN SetBooking(b, "CANCELLED") ELSE db.booking

HandledRow(w, t, row) ==
    /\ Writes(w, t, row)
    /\ \/ Lands(w, t, row) \/ Inserts(w, t, row) \/ Authorizes(w, t, row) \/ Fails(w, t, row)
       \/ \E full \in BOOLEAN : Refunds(w, t, row, full)

\* The money of the event came in on some row.
Landed(w) == \E t \in TxId : \E row : /\ HandledRow(w, t, row)
                                      /\ Lands(w, t, row) \/ Inserts(w, t, row)

\* The request is over; it wrote one row or none.
Over(w) == \E r : /\ r.pc # "commit"
                  /\ req' = [req EXCEPT ![w] = r] /\ seen' = [seen EXCEPT ![w] = Blank]
Outcome(w) ==
    /\ Over(w)
    /\ \/ db' = db /\ UNCHANGED <<refunding, owner, gw>>
       \/ \E t \in TxId : \E row : HandledRow(w, t, row)

\* A request that returns is over.
LEMMA ReturnOver ==
    ASSUME NEW w, Return(w)
    PROVE  Over(w)
<1>1. Idle.pc # "commit"
  BY DEF Idle
<1> QED
  BY <1>1 DEF Over, Return

\* What a request loaded of the row it writes.
LEMMA LoadedRow ==
    ASSUME TypeInv, RowInv, SnapshotFollowed, NEW w \in Worker, InCommit(w),
           NEW asked \in BOOLEAN, NEW t \in Resolved(seen[w], req[w].ev, asked), t # 0
    PROVE  /\ t \in TxId /\ HasRow(w, t)
           /\ db.txs[t].bk = req[w].ev.ref /\ req[w].ev.ref \in Booking
           /\ \A b \in ResolvedBooking(seen[w], req[w].ev, t) : b = req[w].ev.ref
<1>1. t \in TxId /\ seen[w].txs[t] \in Row /\ db.txs[t] \in Row /\ seen[w].txs[t] # NoRow
  BY Handling, RowIsRow
<1>2. /\ seen[w].txs[t].bk = req[w].ev.ref /\ db.txs[t].bk = req[w].ev.ref
      /\ req[w].ev.ref \in Booking
      /\ \A b \in ResolvedBooking(seen[w], req[w].ev, t) : b = req[w].ev.ref
  BY Fresh
<1>3. Follows(seen[w].txs[t], db.txs[t])
  BY <1>1, <1>2 DEF SnapshotFollowed
<1>4. seen[w].txs[t].status \notin Open => Shares(seen[w].txs[t], req[w].ev)
  BY FoundShares
<1> QED
  BY <1>1, <1>2, <1>3, <1>4 DEF HasRow

\* The columns an UPDATE of a loaded row carries.
LEMMA UpdateColumns ==
    ASSUME NEW cur, NEW old, NEW new
    PROVE  LET upd == Update(cur, old, new) IN
           /\ upd.bk = Column(cur.bk, old.bk, new.bk)
           /\ upd.status = Column(cur.status, old.status, new.status)
           /\ upd.gpid = Column(cur.gpid, old.gpid, new.gpid)
           /\ upd.resp = Column(cur.resp, old.resp, new.resp)
           /\ upd.refunded = cur.refunded
BY DEF Update

\* A confirmation writes the payment's ids over those the row had.
LEMMA ConfirmLands ==
    ASSUME TypeInv, RowInv, SnapshotFollowed, NEW w \in Worker, InCommit(w),
           NEW asked \in BOOLEAN, NEW t \in Resolved(seen[w], req[w].ev, asked),
           NEW b \in ResolvedBooking(seen[w], req[w].ev, t),
           FinishConfirm(w, seen[w], req[w].ev, t, b)
    PROVE  Over(w) /\ Landed(w)
<1> DEFINE e == req[w].ev  cur == db.txs[t]  old == seen[w].txs[t]
           row == SettledRow(old, e, b)  upd == Update(cur, old, row)
           r == [pc |-> "dispatch", ev |-> e, tx |-> t]
<1>1. /\ t # 0 /\ t \in TxId /\ HasRow(w, t) /\ b = e.ref /\ e.ref \in Booking
      /\ old \in Row /\ cur \in Row /\ cur.bk = b /\ old.bk = b /\ Follows(old, cur)
      /\ refunding[t] = 0
  BY LoadedRow DEF FinishConfirm, Unlocked, HasRow
<1>2. e.pay \in Payment /\ OrderOf(e) \in Order
  BY Handling, EventIds DEF TypeInv
<1>3. row.bk = b /\ row.status = "SUCCESSFUL" /\ row.gpid = e.pay
      /\ row.resp = MergedResponse(old.resp, e)
  BY <1>1 DEF SettledRow, Row
<1>4. old.status \notin {"PARTIALLY_REFUNDED", "REFUNDED"}
  BY DEF FinishConfirm, CanSettle, Recoverable, CanTransition, AllowedTransitions, TxStatus
<1>5. old.status = "PENDING" => old.gpid \in Order /\ old.resp # row.resp
  BY <1>1, <1>2, <1>3, IdAssumption DEF Follows, Unpaid, MergedResponse, GatewayIds
<1>6. /\ upd.bk = b /\ upd.refunded = cur.refunded
      /\ upd.gpid = e.pay /\ upd.resp = row.resp
      /\ upd.status = IF old.status = "SUCCESSFUL" THEN cur.status ELSE "SUCCESSFUL"
  <2> HIDE DEF row, cur, old, e
  <2> QED
    BY <1>1, <1>2, <1>3, <1>5, UpdateColumns, IdAssumption DEF Column, Follows
<1>7. /\ GatewayIdFree(t, upd.gpid) /\ UNCHANGED <<refunding, owner, gw>>
      /\ db' = [txs |-> [db.txs EXCEPT ![t] = upd], booking |-> SetBooking(b, "CONFIRMED")]
      /\ req' = [req EXCEPT ![w] = r] /\ seen' = [seen EXCEPT ![w] = Blank]
      /\ e.kind \in SuccessKind /\ seen[w].booking[b] # "CONFIRMED"
  BY DEF FinishConfirm, Confirmed, Confirms, gateway
<1>8. db'.booking = [db.booking EXCEPT ![b] = "CONFIRMED"]
  BY <1>7 DEF SetBooking
<1>9. r.pc # "commit"
  OBVIOUS
<1> HIDE DEF upd, r
<1>10. Over(w)
  BY <1>7, <1>9 DEF Over
<1>11. upd # NoRow
  <2>1. upd.status \in TxStatus
    BY <1>1, <1>6 DEF Row, TxStatus
  <2> QED
    BY <2>1 DEF TxStatus, NoRow
<1>12. Writes(w, t, upd)
  BY <1>1, <1>6, <1>7, <1>11 DEF Writes
<1>13. Lands(w, t, upd)
  BY <1>1, <1>3, <1>4, <1>6, <1>7, <1>8 DEF Lands
<1> QED
  BY <1>1, <1>10, <1>12, <1>13 DEF Landed, HandledRow
\* A payment no row was made for, and one set aside, come in on a new row.
LEMMA InsertOutcome ==
    ASSUME TypeInv, RowInv, NEW w \in Worker, InCommit(w),
           NEW asked \in BOOLEAN, NEW t \in Resolved(seen[w], req[w].ev, asked),
           NEW b \in ResolvedBooking(seen[w], req[w].ev, t),
           FinishConfirmUnmatched(w, seen[w], req[w].ev, t, b, asked)
               \/ FinishDuplicate(w, seen[w], req[w].ev, t, b, asked)
    PROVE  Over(w) /\ Landed(w)
<1> DEFINE e == req[w].ev
<1>1. b = e.ref /\ e.ref \in Booking
  BY Fresh
<1>2. \A n \in TxId : FreeRow(n) => db.txs[n] = NoRow /\ refunding[n] = 0
  BY DEF FreeRow, TypeInv, RefundFits
<1>3. CASE FinishConfirmUnmatched(w, seen[w], e, t, b, asked)
  <2> DEFINE row == SettledRow(NewRow(b, "PENDING", OrderOf(e), RawResponse(e), FALSE), e, b)
  <2>1. PICK n \in TxId : FreeRow(n) /\ Confirmed(w, e, n, b, row)
    BY <1>3 DEF FinishConfirmUnmatched
  <2> DEFINE r == [pc |-> "dispatch", ev |-> e, tx |-> n]
  <2>2. /\ row.bk = b /\ row.status = "SUCCESSFUL" /\ row.gpid = e.pay /\ row.refunded = 0
        /\ StoredIds(row) \subseteq GatewayIds(e)
    BY DEF SettledRow, NewRow, StoredIds, MergedResponse, RawResponse, GatewayIds
  <2>3. /\ GatewayIdFree(n, row.gpid) /\ UNCHANGED <<refunding, owner, gw>>
        /\ db' = [txs |-> [db.txs EXCEPT ![n] = row], booking |-> SetBooking(b, "CONFIRMED")]
        /\ req' = [req EXCEPT ![w] = r] /\ seen' = [seen EXCEPT ![w] = Blank]
        /\ e.kind \in SuccessKind /\ seen[w].booking[b] # "CONFIRMED"
    BY <1>3, <2>1 DEF FinishConfirmUnmatched, Confirmed, Confirms, gateway
  <2>4. db'.booking = [db.booking EXCEPT ![b] = "CONFIRMED"]
    BY <2>3 DEF SetBooking
  <2>5. r.pc # "commit"
    OBVIOUS
  <2> HIDE DEF row, r
  <2>6. row # NoRow
    BY <2>2 DEF NoRow
  <2>7. Writes(w, n, row) /\ Inserts(w, n, row)
    BY <1>1, <1>2, <2>1, <2>2, <2>3, <2>4, <2>6 DEF Writes, Inserts
  <2> QED
    BY <2>1, <2>3, <2>5, <2>7 DEF Landed, HandledRow, Over
<1>4. CASE FinishDuplicate(w, seen[w], e, t, b, asked)
  <2> DEFINE row == NewRow(b, "SUCCESSFUL", e.pay, RawResponse(e), TRUE)
  <2>1. PICK n \in TxId : /\ FreeRow(n) /\ GatewayIdFree(n, e.pay)
                          /\ db' = [db EXCEPT !.txs[n] = row]
    BY <1>4 DEF FinishDuplicate
  <2>2. /\ row.bk = b /\ row.status = "SUCCESSFUL" /\ row.gpid = e.pay /\ row.refunded = 0
        /\ StoredIds(row) \subseteq GatewayIds(e)
    BY DEF NewRow, StoredIds, RawResponse, GatewayIds
  <2>3. /\ UNCHANGED <<refunding, owner, gw>> /\ Over(w)
        /\ e.kind \in SuccessKind /\ seen[w].booking[b] = "CONFIRMED"
    BY <1>4, ReturnOver DEF FinishDuplicate, Repeats, gateway
  <2> HIDE DEF row
  <2>4. db'.txs = [db.txs EXCEPT ![n] = row] /\ db'.booking = db.booking
    BY <2>1 DEF TypeInv, TypeOK, Table
  <2>6. row # NoRow
    BY <2>2 DEF NoRow
  <2>7. Writes(w, n, row) /\ Inserts(w, n, row)
    BY <1>1, <1>2, <2>1, <2>2, <2>3, <2>4, <2>6 DEF Writes, Inserts
  <2> QED
    BY <2>1, <2>3, <2>7 DEF Landed, HandledRow
<1> QED
  BY <1>3, <1>4

\* A handler that commits one row it loaded.
LEMMA CommitWrites ==
    ASSUME TypeInv, RowInv, SnapshotFollowed, NEW w \in Worker, InCommit(w),
           NEW asked \in BOOLEAN, NEW t \in Resolved(seen[w], req[w].ev, asked), t # 0, Unlocked(t),
           NEW row, row.bk = seen[w].txs[t].bk, row.refunded = seen[w].txs[t].refunded,
           row.status \in TxStatus, NEW booking, NEW B,
           Commit(w, req[w].ev, WriteRow(seen[w], t, row), booking, B)
    PROVE  /\ t \in TxId /\ HasRow(w, t) /\ Over(w) /\ db'.booking = booking
           /\ Writes(w, t, Update(db.txs[t], seen[w].txs[t], row))
<1> DEFINE cur == db.txs[t]  old == seen[w].txs[t]  upd == Update(cur, old, row)
<1>1. /\ t \in TxId /\ HasRow(w, t) /\ cur \in Row /\ old \in Row /\ refunding[t] = 0
      /\ cur.bk = req[w].ev.ref /\ old.bk = req[w].ev.ref /\ req[w].ev.ref \in Booking
  BY LoadedRow DEF Unlocked, HasRow
<1>2. /\ db'.txs = [db.txs EXCEPT ![t] = upd] /\ db'.booking = booking
      /\ Over(w) /\ UNCHANGED <<refunding, owner, gw>>
  BY ReturnOver DEF Commit, WriteRow, gateway
<1>3. upd.bk = req[w].ev.ref /\ upd.status \in TxStatus
  <2>1. cur.status \in TxStatus /\ row.bk = old.bk
    BY <1>1, RowIsRow
  <2> HIDE DEF cur, old
  <2> QED
    BY <1>1, <2>1, UpdateColumns DEF Column
<1> HIDE DEF upd
<1>4. upd # NoRow
  BY <1>3 DEF TxStatus, NoRow
<1> QED
  BY <1>1, <1>2, <1>3, <1>4 DEF Writes, upd

\* A handler that commits no row.
LEMMA CommitNothing ==
    ASSUME TypeInv, NEW w, NEW e, NEW B, Commit(w, e, db.txs, db.booking, B)
    PROVE  Outcome(w)
BY ReturnOver DEF Outcome, Commit, gateway, TypeInv, TypeOK, Table

\* An authorization.
LEMMA AuthorizedOutcome ==
    ASSUME TypeInv, RowInv, SnapshotFollowed, NEW w \in Worker, InCommit(w),
           NEW asked \in BOOLEAN, NEW t \in Resolved(seen[w], req[w].ev, asked), NEW b,
           FinishAuthorized(w, seen[w], req[w].ev, t, b)
    PROVE  Outcome(w)
<1> DEFINE e == req[w].ev  old == seen[w].txs[t]  cur == db.txs[t]
           row == [old EXCEPT !.status = "PROCESSING", !.gpid = e.pay, !.resp = RawResponse(e)]
           upd == Update(cur, old, row)
<1>1. CASE t # 0 /\ old.status = "PENDING"
  <2>1. /\ old \in Row /\ cur.status = "PENDING" /\ old.gpid \in Order
        /\ e.pay \in Payment /\ cur \in Row
    BY <1>1, LoadedRow, Handling, EventIds DEF HasRow, Follows, Unpaid, TypeInv
  <2>2. /\ row.bk = old.bk /\ row.refunded = old.refunded /\ row.status = "PROCESSING"
        /\ row.gpid = e.pay
    BY <2>1 DEF Row
  <2>3. /\ Commit(w, e, WriteRow(seen[w], t, row), db.booking, {b})
        /\ Unlocked(t) /\ GatewayIdFree(t, e.pay) /\ e.kind = "payment.authorized"
    BY <1>1 DEF FinishAuthorized
  <2> HIDE DEF row
  <2>4. row.status \in TxStatus
    BY <2>2 DEF TxStatus
  <2>5. /\ t \in TxId /\ HasRow(w, t) /\ Over(w) /\ db'.booking = db.booking /\ Writes(w, t, upd)
    BY <1>1, <2>2, <2>3, <2>4, CommitWrites
  <2>6. upd.gpid = e.pay /\ upd.status = "PROCESSING" /\ upd.refunded = cur.refunded
    <3> HIDE DEF cur, old
    <3> QED
      BY <1>1, <2>1, <2>2, UpdateColumns, IdAssumption DEF Column
  <2> HIDE DEF upd
  <2>7. HandledRow(w, t, upd)
    BY <2>1, <2>3, <2>5, <2>6 DEF HandledRow, Authorizes
  <2> QED
    BY <2>5, <2>7 DEF Outcome
<1>2. CASE ~(t # 0 /\ old.status = "PENDING")
  BY <1>2, CommitNothing DEF FinishAuthorized
<1> QED
  BY <1>1, <1>2

\* A failed attempt.
LEMMA FailedOutcome ==
    ASSUME TypeInv, RowInv, SnapshotFollowed, NEW w \in Worker, InCommit(w),
           NEW asked \in BOOLEAN, NEW t \in Resolved(seen[w], req[w].ev, asked),
           FinishFailed(w, seen[w], req[w].ev, t)
    PROVE  Outcome(w)
<1> DEFINE e == req[w].ev  old == seen[w].txs[t]  cur == db.txs[t]
           row == [old EXCEPT !.status = "FAILED", !.resp = RawResponse(e)]
           upd == Update(cur, old, row)
<1>1. CASE old.status # "SUCCESSFUL"
  <2>1. t # 0 /\ old \in Row /\ Follows(old, cur) /\ e.kind = "payment.failed"
    BY LoadedRow DEF HasRow, FinishFailed
  <2>2. /\ row.bk = old.bk /\ row.refunded = old.refunded /\ row.status = "FAILED"
        /\ row.gpid = old.gpid /\ row.resp = RawResponse(e)
    BY <2>1 DEF Row
  <2>3. Commit(w, e, WriteRow(seen[w], t, row), db.booking, {}) /\ Unlocked(t)
    BY <1>1 DEF FinishFailed
  <2> HIDE DEF row
  <2>4. row.status \in TxStatus
    BY <2>2 DEF TxStatus
  <2>5. /\ t \in TxId /\ HasRow(w, t) /\ Over(w) /\ db'.booking = db.booking /\ Writes(w, t, upd)
    BY <2>1, <2>2, <2>3, <2>4, CommitWrites
  <2>6. /\ upd.gpid = cur.gpid /\ upd.status = "FAILED" /\ upd.refunded = cur.refunded
        /\ upd.resp = RawResponse(e) \/ upd.resp = cur.resp
    <3> HIDE DEF cur, old
    <3> QED
      BY <2>1, <2>2, UpdateColumns DEF Column, Follows, Settled
  <2> HIDE DEF upd
  <2>7. HandledRow(w, t, upd)
    BY <2>1, <2>5, <2>6 DEF HandledRow, Fails
  <2> QED
    BY <2>5, <2>7 DEF Outcome
<1>2. CASE old.status = "SUCCESSFUL"
  BY <1>2, CommitNothing DEF FinishFailed
<1> QED
  BY <1>1, <1>2

\* A refund event.
LEMMA RefundOutcome ==
    ASSUME TypeInv, RowInv, SnapshotFollowed, NEW w \in Worker, InCommit(w),
           NEW asked \in BOOLEAN, NEW t \in Resolved(seen[w], req[w].ev, asked),
           NEW b \in ResolvedBooking(seen[w], req[w].ev, t),
           FinishRefund(w, seen[w], req[w].ev, t, b)
    PROVE  Outcome(w)
<1> DEFINE e == req[w].ev  old == seen[w].txs[t]  cur == db.txs[t]  full == (e.cum = Total)
           row == RefundedRow(old, full)  upd == Update(cur, old, row)
           booking == IF full THEN SetBooking(b, "CANCELLED") ELSE db.booking
<1>1. /\ t # 0 /\ old \in Row /\ Follows(old, cur) /\ old.status \in Settled /\ Unlocked(t)
      /\ b = e.ref /\ full \in BOOLEAN
  BY LoadedRow DEF HasRow, FinishRefund
<1>2. /\ row.bk = old.bk /\ row.refunded = old.refunded
      /\ row.gpid = old.gpid /\ row.resp = old.resp
      /\ row.status = IF full THEN "REFUNDED" ELSE "PARTIALLY_REFUNDED"
  BY <1>1 DEF Row, RefundedRow
<1>3. Commit(w, e, WriteRow(seen[w], t, row), booking, IF full THEN {b} ELSE {})
  BY DEF FinishRefund
<1> HIDE DEF row, booking, full
<1>4. row.status \in TxStatus
  BY <1>2 DEF TxStatus
<1>5. /\ t \in TxId /\ HasRow(w, t) /\ Over(w) /\ db'.booking = booking /\ Writes(w, t, upd)
  BY <1>1, <1>2, <1>3, <1>4, CommitWrites
<1>6. /\ upd.gpid = cur.gpid /\ upd.resp = cur.resp /\ upd.refunded = cur.refunded
      /\ upd.status = Column(cur.status, old.status, row.status)
  <2> HIDE DEF cur, old
  <2> QED
    BY <1>2, UpdateColumns DEF Column
<1> HIDE DEF upd
<1>7. Refunds(w, t, upd, full)
  BY <1>1, <1>2, <1>5, <1>6 DEF Refunds, booking
<1>8. HandledRow(w, t, upd)
  BY <1>1, <1>5, <1>7 DEF HandledRow
<1> QED
  BY <1>5, <1>8 DEF Outcome

\* Every outcome of a request.
LEMMA FinishOutcome ==
    ASSUME TypeInv, RowInv, SnapshotFollowed, NEW w \in Worker, Finish(w)
    PROVE  InCommit(w) /\ Outcome(w)
<1> DEFINE s == seen[w]  e == req[w].ev
<1>1. InCommit(w)
  BY FinishOutcomes
<1>2. PICK asked, t :
        /\ asked \in BOOLEAN /\ t \in Resolved(s, e, asked)
        /\ \/ Rollback(w)
           \/ /\ ~Unmatched(s, e, t, asked)
              /\ \E b \in ResolvedBooking(s, e, t) :
                   \/ FinishConfirm(w, s, e, t, b)
                   \/ FinishConfirmUnmatched(w, s, e, t, b, asked)
                   \/ FinishReplay(w, s, e, t, b)
                   \/ FinishDuplicate(w, s, e, t, b, asked)
                   \/ FinishAuthorized(w, s, e, t, b)
                   \/ FinishFailed(w, s, e, t)
                   \/ FinishRefund(w, s, e, t, b)
                   \/ FinishInvalidRefund(w, s, e, t)
  BY FinishOutcomes
<1>3. CASE Rollback(w)
  BY <1>1, <1>3, ReturnOver DEF Rollback, Outcome, ledger, gateway
<1>4. CASE FinishInvalidRefund(w, s, e, t)
  BY <1>1, <1>4, CommitNothing DEF FinishInvalidRefund
<1>5. ASSUME NEW b, FinishReplay(w, s, e, t, b) PROVE Outcome(w)
  BY <1>5, ReturnOver DEF FinishReplay, Outcome, ledger, gateway
<1>6. Over(w) /\ Landed(w) => Outcome(w)
  BY DEF Landed, Outcome
<1> QED
  BY <1>1, <1>2, <1>3, <1>4, <1>5, <1>6, ConfirmLands, InsertOutcome, AuthorizedOutcome,
     FailedOutcome, RefundOutcome
-----------------------------------------------------------------------------
(* The invariant of the refunds.                                           *)

\* Money that was captured stays captured, and what was paid back stays so.
GatewayGrows ==
    \A p \in Payment : /\ gw[p].st = "captured" => gw'[p].st = "captured"
                       /\ gw'[p].refunded >= gw[p].refunded
\* A request may book its order, and forgets none that was booked.
LEMMA FinishBooks ==
    ASSUME NEW w \in Worker, Finish(w)
    PROVE  unchecked \subseteq unchecked' /\ late' = late
<1> DEFINE s == seen[w]  e == req[w].ev  Kept == unchecked \subseteq unchecked' /\ late' = late
<1>1. Rollback(w) => Kept
  BY DEF Rollback
<1>2. ASSUME NEW t, NEW b, NEW asked
      PROVE  /\ FinishConfirm(w, s, e, t, b) => Kept
             /\ FinishConfirmUnmatched(w, s, e, t, b, asked) => Kept
             /\ FinishReplay(w, s, e, t, b) => Kept
             /\ FinishDuplicate(w, s, e, t, b, asked) => Kept
  BY DEF FinishConfirm, FinishConfirmUnmatched, Confirmed, FinishReplay, FinishDuplicate, Book
<1>3. ASSUME NEW t, NEW b
      PROVE  /\ FinishAuthorized(w, s, e, t, b) => Kept
             /\ FinishFailed(w, s, e, t) => Kept
             /\ FinishRefund(w, s, e, t, b) => Kept
             /\ FinishInvalidRefund(w, s, e, t) => Kept
  BY DEF FinishAuthorized, FinishFailed, FinishRefund, FinishInvalidRefund, Commit
<1> HIDE DEF Kept
<1>4. Kept
  BY <1>1, <1>2, <1>3, FinishOutcomes
<1> QED
  BY <1>4 DEF Kept

\* Every step, seen from the gateway.
LEMMA NextGateway ==
    ASSUME TypeInv, RowInv, RefundInv, [Next]_vars
    PROVE  GatewayGrows /\ ReceiptsKept /\ CaptureOnce'
<1>1. /\ gw \in [Payment -> GatewayPayment] /\ owner \in [Order -> Booking \cup {NoId}]
      /\ \A p \in Payment : gw[p].refunded \in Nat
  BY BoundAssumption DEF TypeInv, TypeOK, GatewayPayment
<1>2. CASE gw' = gw /\ owner' = owner /\ unchecked \subseteq unchecked'
  BY <1>1, <1>2 DEF GatewayGrows, ReceiptsKept, CaptureOnce, RefundInv
<1>3. CASE \E b \in Booking, o \in Order : CreateOrder(b, o)
  <2>1. gw' = gw
    BY <1>3 DEF CreateOrder
  <2>2. GatewayGrows /\ CaptureOnce'
    BY <1>1, <2>1 DEF GatewayGrows, CaptureOnce, RefundInv
  <2> QED
    BY <1>3, <2>2, GatewayKeepsReceipts
<1>4. CASE \E p \in Payment, o \in Order, st \in {"authorized", "failed"} : Attempt(p, o, st)
  <2>1. PICK p \in Payment, o \in Order, st \in {"authorized", "failed"} : Attempt(p, o, st)
    BY <1>4
  <2>2. /\ gw[p].ord = NoId /\ gw'[p].ord = o /\ gw'[p].st = st /\ o # NoId
        /\ gw'[p].refunded = gw[p].refunded
        /\ \A q \in Payment \ {p} : gw'[q] = gw[q]
    BY <1>1, <2>1, IdAssumption DEF Attempt, GatewayPayment
  <2>3. GatewayGrows /\ CaptureOnce'
    BY <1>1, <2>2 DEF GatewayGrows, CaptureOnce, RefundInv
  <2> QED
    BY <1>4, <2>3, GatewayKeepsReceipts
<1>5. CASE \E p \in Payment : Capture(p)
  <2>1. PICK p \in Payment : Capture(p)
    BY <1>5
  <2>2. /\ gw[p].st = "authorized" /\ NoCapture(gw[p].ord)
        /\ gw'[p].ord = gw[p].ord /\ gw'[p].st = "captured"
        /\ gw'[p].refunded = gw[p].refunded
        /\ \A q \in Payment \ {p} : gw'[q] = gw[q]
    BY <1>1, <2>1 DEF Capture, GatewayPayment
  <2>3. GatewayGrows /\ CaptureOnce'
    BY <1>1, <2>2 DEF GatewayGrows, CaptureOnce, NoCapture, RefundInv
  <2> QED
    BY <1>5, <2>3, GatewayKeepsReceipts
<1>6. ASSUME NEW p \in Payment, NEW amt \in 1 .. Total, RefundAtGateway(p, amt)
      PROVE  GatewayGrows /\ CaptureOnce'
  <2>1. /\ gw'[p].ord = gw[p].ord /\ gw'[p].st = gw[p].st
        /\ gw'[p].refunded = gw[p].refunded + amt
        /\ \A q \in Payment \ {p} : gw'[q] = gw[q]
    BY <1>1, <1>6 DEF RefundAtGateway, GatewayPayment
  <2> QED
    BY <1>1, <2>1 DEF GatewayGrows, CaptureOnce, RefundInv
<1>7. CASE \E t \in TxId, amt \in 1 .. Total : RefundCall(t, amt)
  <2>1. GatewayGrows /\ CaptureOnce'
    BY <1>6, <1>7 DEF RefundCall
  <2> QED
    BY <1>7, <2>1, GatewayKeepsReceipts
<1>8. CASE \E p \in Payment, amt \in 1 .. Total : DashboardRefund(p, amt)
  <2>1. GatewayGrows /\ CaptureOnce'
    BY <1>6, <1>8 DEF DashboardRefund
  <2> QED
    BY <1>8, <2>1, GatewayKeepsReceipts
<1>9. CASE \E w \in Worker : Finish(w)
  BY <1>2, <1>9, FinishOutcome, FinishBooks DEF RefundInv, Outcome, HandledRow, Writes
<1> QED
  BY <1>2, <1>3, <1>4, <1>5, <1>7, <1>8, <1>9
  DEF Next, PayNext, RefundNext, Deliver, Begin, Dispatch, AckDuplicate, ChooseRow,
      PersistOrder, Fulfil, Crash, RefundCommit, RefundLost, gateway, vars

\* Changes a snapshot may miss.
Mild(cur, new) ==
    \/ new = cur
    \/ cur.status = "PENDING" /\ new.status = "PENDING"
    \/ /\ cur.status \in Settled /\ new.status \in {"PARTIALLY_REFUNDED", "REFUNDED"}
       /\ new.gpid = cur.gpid /\ new.resp = cur.resp
\* What a snapshot follows, it follows after a mild change.
LEMMA FollowsMild ==
    ASSUME NEW old, NEW cur, NEW new, Follows(old, cur), Mild(cur, new)
    PROVE  Follows(old, new)
BY DEF Follows, Mild, Settled

\* A step that takes no request and changes rows mildly.
LEMMA MildFollowed ==
    ASSUME TypeInv, SnapshotFollowed,
           \A t \in TxId : db.txs[t] # NoRow => Mild(db.txs[t], db'.txs[t]),
           \A v \in Worker : InCommit(v)' =>
               InCommit(v) /\ req'[v] = req[v] /\ seen'[v] = seen[v]
    PROVE  SnapshotFollowed'
<1>1. ASSUME NEW v \in Worker, NEW t \in TxId, InCommit(v)', seen'[v].txs[t] # NoRow,
             seen'[v].txs[t].bk = req'[v].ev.ref
      PROVE  Follows(seen'[v].txs[t], db'.txs[t])
  <2>1. InCommit(v) /\ req'[v] = req[v] /\ seen'[v] = seen[v]
    BY <1>1
  <2>2. db.txs[t] # NoRow
    BY <1>1, <2>1 DEF TypeInv, RowsKept
  <2>3. Follows(seen[v].txs[t], db.txs[t]) /\ Mild(db.txs[t], db'.txs[t])
    BY <1>1, <2>1, <2>2 DEF SnapshotFollowed
  <2> QED
    BY <2>1, <2>3, FollowsMild
<1> QED
  BY <1>1 DEF SnapshotFollowed, Follows, Unpaid

\* The other requests, when one is over.
LEMMA OthersHeld ==
    ASSUME TypeInv, RowInv, NEW w \in Worker, InCommit(w), Over(w), NEW v \in Worker, InCommit(v)'
    PROVE  /\ InCommit(v) /\ v # w /\ req'[v] = req[v] /\ seen'[v] = seen[v]
           /\ req[v].ev.ref # req[w].ev.ref /\ req[v].ev.ref \in Booking
<1>1. PICK r : /\ r.pc # "commit"
               /\ req' = [req EXCEPT ![w] = r] /\ seen' = [seen EXCEPT ![w] = Blank]
  BY DEF Over
<1>2. InCommit(v) /\ v # w /\ req'[v] = req[v] /\ seen'[v] = seen[v]
  BY <1>1 DEF InCommit, TypeInv, TypeOK
<1> QED
  BY <1>2 DEF RowInv, OnePerBooking, BookingNamed

\* A request that is over leaves the other ones what they saw.
LEMMA OutcomeFollowed ==
    ASSUME TypeInv, RowInv, SnapshotFollowed, NEW w \in Worker, InCommit(w), Outcome(w)
    PROVE  SnapshotFollowed'
<1>1. Over(w)
  BY DEF Outcome
<1>2. ASSUME NEW v \in Worker, NEW u \in TxId, InCommit(v)', seen'[v].txs[u] # NoRow,
             seen'[v].txs[u].bk = req'[v].ev.ref
      PROVE  Follows(seen'[v].txs[u], db'.txs[u])
  <2>1. /\ InCommit(v) /\ v # w /\ req'[v] = req[v] /\ seen'[v] = seen[v]
        /\ req[v].ev.ref # req[w].ev.ref
    BY <1>1, <1>2, OthersHeld
  <2>2. db.txs[u] # NoRow /\ db.txs[u].bk = req[v].ev.ref
    BY <1>2, <2>1 DEF TypeInv, RowsKept, RowInv, SnapshotFresh
  <2>3. db'.txs[u] = db.txs[u]
    <3>1. CASE db' = db
      BY <3>1
    <3>2. CASE \E t \in TxId : \E row : HandledRow(w, t, row)
      BY <2>1, <2>2, <3>2, OneRowWritten DEF HandledRow, Writes
    <3> QED
      BY <3>1, <3>2 DEF Outcome
  <2> QED
    BY <1>2, <2>1, <2>3 DEF SnapshotFollowed
<1> QED
  BY <1>2 DEF SnapshotFollowed, Follows, Unpaid

\* One row written that has money only of a payment, which no other row names.
GoodRow(row) ==
    /\ row.status \in Open => row.refunded = 0
    /\ row.status = "PENDING" => Unpaid(row)
    /\ HasMoney(row) => Paid(row.gpid)
\* Such a row may be written.
LEMMA GoodRowWritten ==
    ASSUME TypeInv, RowsPaid, PaymentOnce, gw' = gw, NEW t \in TxId, NEW row, row # NoRow,
           db'.txs = [db.txs EXCEPT ![t] = row], GoodRow(row),
           \/ GatewayIdFree(t, row.gpid) \/ row.gpid \in Order
           \/ db.txs[t] # NoRow /\ row.gpid = db.txs[t].gpid
    PROVE  RowsPaid' /\ PaymentOnce'
<1>1. \A u \in TxId : db'.txs[u] = IF u = t THEN row ELSE db.txs[u]
  BY OneRowWritten
<1>2. RowsPaid'
  BY <1>1 DEF RowsPaid, GoodRow, Rows, HasMoney, Paid, Unpaid
<1>3. PaymentOnce'
  BY <1>1, IdAssumption DEF PaymentOnce, GatewayIdFree, Rows
<1> QED
  BY <1>2, <1>3

\* The row of the event's booking has the same money before and after.
LEMMA HandledGood ==
    ASSUME TypeInv, RefundInv, NEW w \in Worker, InCommit(w), NEW t \in TxId, NEW row,
           HandledRow(w, t, row)
    PROVE  /\ GoodRow(row)
           /\ \/ GatewayIdFree(t, row.gpid)
              \/ db.txs[t] # NoRow /\ row.gpid = db.txs[t].gpid
<1> DEFINE e == req[w].ev  old == seen[w].txs[t]  cur == db.txs[t]
<1>1. cur \in Row => t \in Rows /\ cur.refunded \in Nat
  BY RowIsRow, BoundAssumption DEF Rows, Row
<1>2. e.kind \in SuccessKind => Paid(e.pay)
  <2>1. e.pay \in Payment
    BY DEF TypeInv, TypeOK, InCommit, Request, Idle, Event
  <2> QED
    BY <2>1 DEF RefundInv, EventHeld, Paid
<1>3. CASE Lands(w, t, row)
  <2>1. row.status \in Settled /\ row.status \notin Open /\ row.status # "PENDING"
    BY <1>3 DEF Lands, HasRow, Follows, Settled, Open
  <2> QED
    BY <1>2, <1>3, <2>1 DEF Lands, GoodRow
<1>4. CASE Inserts(w, t, row)
  BY <1>2, <1>4 DEF Inserts, GoodRow, Open
<1>5. CASE Authorizes(w, t, row)
  <2>1. row.status = "PROCESSING" /\ row.refunded = 0 /\ GatewayIdFree(t, row.gpid)
    BY <1>1, <1>5 DEF Authorizes, HasRow, RefundInv, RowsPaid, Open
  <2> QED
    BY <2>1 DEF GoodRow, HasMoney, Settled
<1>6. CASE Fails(w, t, row)
  <2>1. /\ row.status = "FAILED" /\ row.gpid = cur.gpid /\ t \in Rows
        /\ row.refunded > 0 => HasMoney(cur)
    BY <1>1, <1>6 DEF Fails, HasRow, HasMoney
  <2>2. HasMoney(row) => Paid(row.gpid)
    BY <2>1 DEF RefundInv, RowsPaid, HasMoney, Settled
  <2> QED
    BY <2>1, <2>2 DEF GoodRow, Open, Rows
<1>7. ASSUME NEW full \in BOOLEAN, Refunds(w, t, row, full)
      PROVE  GoodRow(row) /\ db.txs[t] # NoRow /\ row.gpid = db.txs[t].gpid
  <2>1. cur.status \in Settled /\ row.gpid = cur.gpid /\ t \in Rows
    BY <1>1, <1>7 DEF Refunds, HasRow, Follows, Settled
  <2>2. row.status \in Settled
    BY <1>7, <2>1 DEF Refunds, Column, Settled
  <2> QED
    BY <2>1, <2>2 DEF GoodRow, RefundInv, RowsPaid, HasMoney, Settled, Open, Rows
<1> QED
  BY <1>3, <1>4, <1>5, <1>6, <1>7 DEF HandledRow

\* A request that is over.
LEMMA OutcomeRefundInv ==
    ASSUME TypeInv, RowInv, RefundInv, CaptureOnce', NEW w \in Worker, InCommit(w), Outcome(w)
    PROVE  RefundInv'
<1>1. SnapshotFollowed'
  BY OutcomeFollowed DEF RefundInv
<1>2. gw' = gw /\ refunding' = refunding
  BY DEF Outcome, HandledRow, Writes
<1>3. EventHeld'
  BY <1>2, OthersHeld DEF RefundInv, EventHeld, Outcome
<1>4. CASE db' = db
  BY <1>1, <1>2, <1>3, <1>4
  DEF RefundInv, RowsPaid, PaymentOnce, RefundsSettled, Rows, HasMoney, Paid, Unpaid
<1>5. ASSUME NEW t \in TxId, NEW row, HandledRow(w, t, row)
      PROVE  RefundInv'
  <2>1. RowsPaid' /\ PaymentOnce'
    BY <1>2, <1>5, HandledGood, GoodRowWritten DEF HandledRow, Writes, RefundInv
  <2>2. RefundsSettled'
    BY <1>2, <1>5, OneRowWritten DEF HandledRow, Writes, RefundInv, RefundsSettled
  <2> QED
    BY <1>1, <1>3, <2>1, <2>2 DEF RefundInv
<1> QED
  BY <1>4, <1>5 DEF Outcome
\* A request is taken: what it loads is what the ledger holds.
LEMMA BeginRefundInv ==
    ASSUME VerifyAt \subseteq {"captured"}, TypeInv, RefundInv,
           NEW w \in Worker, NEW e \in Event, Begin(w, e)
    PROVE  RefundInv'
<1>1. /\ db' = db /\ gw' = gw /\ refunding' = refunding
      /\ \A v \in Worker : /\ req'[v] = IF v = w THEN [pc |-> "commit", ev |-> e] ELSE req[v]
                           /\ seen'[v] = IF v = w THEN db ELSE seen[v]
  <2>1. /\ db' = db /\ gw' = gw /\ refunding' = refunding
        /\ req' = [req EXCEPT ![w] = [pc |-> "commit", ev |-> e]]
        /\ seen' = [seen EXCEPT ![w] = db]
    BY DEF Begin, ledger, gateway
  <2>2. req \in [Worker -> Request] /\ seen \in [Worker -> Table]
    BY DEF TypeInv, TypeOK
  <2> QED
    BY <2>1, <2>2
<1>2. e.kind \in Subscribed /\ (e.kind \in SuccessKind => gw[e.pay].st = "captured")
  <2>1. /\ e.kind \in Subscribed
        /\ CASE e.kind = "VERIFY_ENDPOINT" -> gw[e.pay].st \in VerifyAt
             [] e.kind = "payment.authorized" -> gw[e.pay].st \in {"authorized", "captured"}
             [] e.kind = "payment.failed" -> gw[e.pay].st = "failed"
             [] OTHER -> gw[e.pay].st = "captured"
    BY Zenon DEF Begin, Emitted
  <2> QED
    BY <2>1 DEF SuccessKind
<1>3. EventHeld'
  BY <1>1, <1>2 DEF RefundInv, EventHeld, InCommit
<1>4. \A t \in TxId : db.txs[t] # NoRow => Follows(db.txs[t], db.txs[t])
  BY DEF RefundInv, RowsPaid, Rows, Follows
<1>5. SnapshotFollowed'
  BY <1>1, <1>4 DEF RefundInv, SnapshotFollowed, InCommit, Follows, Unpaid
<1> QED
  BY <1>1, <1>3, <1>5
  DEF RefundInv, CaptureOnce, RowsPaid, PaymentOnce, RefundsSettled, Rows, HasMoney, Paid, Unpaid

\* The order endpoint writes a PENDING row, over a PENDING one or none.
Waits(t, row) ==
    /\ db' = [db EXCEPT !.txs[t] = row]
    /\ row # NoRow /\ row.status = "PENDING" /\ row.refunded = 0 /\ Unpaid(row)
    /\ db.txs[t] = NoRow \/ (db.txs[t].status = "PENDING" /\ db.txs[t].bk = row.bk)
    /\ UNCHANGED <<req, seen, refunding, owner, gw>>
\* That is what the order endpoint does.
LEMMA PersistWaits ==
    ASSUME TypeInv, RowsPaid, NEW o \in Order, PersistOrder(o), late' = {}
    PROVE  \E t \in TxId : \E row : Waits(t, row)
<1>1. UNCHANGED <<req, seen, refunding, owner, gw>>
  BY DEF PersistOrder
<1>2. PICK t \in TxId, row \in Row :
        /\ db' = [txs |-> [db.txs EXCEPT ![t] = row], booking |-> db.booking]
        /\ PlacesNew(o, t, row) \/ PlacesOver(o, t, row)
        /\ row.bk = owner[o] /\ row.gpid = o /\ row.resp = OrderResponse(o) /\ ~row.dup
  BY PlacedRow
<1>3. db' = [db EXCEPT !.txs[t] = row] /\ row # NoRow
  <2>1. db = [txs |-> db.txs, booking |-> db.booking]
    BY DEF TypeInv, TypeOK, Table
  <2> QED
    BY <1>2, <2>1, RowIsRow
<1>4. Unpaid(row)
  BY <1>2 DEF Unpaid, OrderResponse
<1>5. /\ row.status = "PENDING" /\ row.refunded = 0
      /\ db.txs[t] = NoRow \/ (db.txs[t].status = "PENDING" /\ db.txs[t].bk = row.bk)
  <2>1. CASE PlacesNew(o, t, row)
    BY <2>1 DEF PlacesNew, NewRow, FreeRow
  <2>2. CASE PlacesOver(o, t, row)
    BY <1>2, <2>2, RowIsRow DEF PlacesOver, RowsPaid, Rows, Open, Row
  <2> QED
    BY <1>2, <2>1, <2>2
<1> QED
  BY <1>1, <1>3, <1>4, <1>5 DEF Waits

\* It keeps the invariant.
LEMMA WaitsRefundInv ==
    ASSUME TypeInv, RefundInv, CaptureOnce', NEW t \in TxId, NEW row, Waits(t, row)
    PROVE  RefundInv'
<1>1. /\ db'.txs = [db.txs EXCEPT ![t] = row]
      /\ UNCHANGED <<req, seen, refunding, owner, gw>>
  BY DEF Waits, TypeInv, TypeOK, Table
<1>2. \A u \in TxId : db'.txs[u] = IF u = t THEN row ELSE db.txs[u]
  BY <1>1, OneRowWritten
<1>3. GoodRow(row) /\ row.gpid \in Order /\ row # NoRow
  BY DEF Waits, GoodRow, HasMoney, Unpaid, Settled
<1>4. RowsPaid' /\ PaymentOnce'
  BY <1>1, <1>3, GoodRowWritten DEF RefundInv
<1>5. \A u \in TxId : db.txs[u] # NoRow => Mild(db.txs[u], db'.txs[u])
  BY <1>2 DEF Waits, Mild
<1>6. SnapshotFollowed'
  BY <1>1, <1>5, MildFollowed DEF RefundInv, InCommit
<1>7. RefundsSettled'
  <2>1. refunding[t] = 0
    BY DEF Waits, RefundInv, RefundsSettled, TypeInv, RefundFits, Settled
  <2> QED
    BY <1>1, <1>2, <2>1 DEF RefundInv, RefundsSettled
<1> QED
  BY <1>1, <1>4, <1>6, <1>7 DEF RefundInv, EventHeld, InCommit

\* The refund endpoint adds what it paid back to its row.
Repays(t, row, full) ==
    LET cur == db.txs[t] IN
    /\ t \in Rows /\ cur \in Row /\ cur.status \in Settled
    /\ row # NoRow /\ row.bk = cur.bk /\ row.gpid = cur.gpid /\ row.resp = cur.resp
    /\ row.refunded = cur.refunded + refunding[t]
    /\ row.status = IF full THEN "REFUNDED" ELSE "PARTIALLY_REFUNDED"
    /\ db'.txs = [db.txs EXCEPT ![t] = row]
    /\ db'.booking = IF full THEN [db.booking EXCEPT ![row.bk] = "CANCELLED"] ELSE db.booking
    /\ refunding' = [refunding EXCEPT ![t] = 0]
    /\ UNCHANGED <<req, seen, owner, gw>>
\* That is what the second half of the refund endpoint does.
LEMMA RefundRepays ==
    ASSUME TypeInv, RefundsSettled, NEW t \in TxId, RefundCommit(t)
    PROVE  \E row : \E full \in BOOLEAN : Repays(t, row, full)
<1> DEFINE cur == db.txs[t]  total == cur.refunded + refunding[t]  full == (total >= Total)
           base == RefundedRow(cur, full)
           row == [base EXCEPT !.refunded = total]
<1>1. cur \in Row /\ full \in BOOLEAN /\ t \in Rows /\ cur.status \in Settled
  BY DEF RefundCommit, TypeInv, TypeOK, RefundFits, Table, Rows, RefundsSettled
<1>2. /\ base \in Row /\ base.bk = cur.bk /\ base.gpid = cur.gpid /\ base.resp = cur.resp
      /\ base.status = IF full THEN "REFUNDED" ELSE "PARTIALLY_REFUNDED"
  <2> HIDE DEF full
  <2>1. base \in Row /\ base.bk = cur.bk /\ base.gpid = cur.gpid
    <3> HIDE DEF cur
    <3> QED
      BY <1>1, RefundedRowType
  <2> QED
    BY <1>1, <2>1 DEF RefundedRow, Row
<1>3. /\ db'.txs = [db.txs EXCEPT ![t] = row]
      /\ db'.booking = IF full THEN [db.booking EXCEPT ![cur.bk] = "CANCELLED"] ELSE db.booking
      /\ refunding' = [refunding EXCEPT ![t] = 0]
      /\ UNCHANGED <<req, seen, owner, gw>>
  BY DEF RefundCommit, gateway
<1> HIDE DEF base, full
<1>4. /\ row.bk = cur.bk /\ row.gpid = cur.gpid /\ row.resp = cur.resp
      /\ row.status = IF full THEN "REFUNDED" ELSE "PARTIALLY_REFUNDED"
      /\ row.refunded = cur.refunded + refunding[t]
  BY <1>2 DEF Row
<1> HIDE DEF row
<1>5. row # NoRow
  BY <1>4 DEF NoRow
<1>6. Repays(t, row, full)
  BY <1>1, <1>3, <1>4, <1>5 DEF Repays
<1> QED
  BY <1>1, <1>6

\* It keeps the invariant too.
LEMMA RepaysRefundInv ==
    ASSUME TypeInv, RefundInv, CaptureOnce', NEW t \in TxId, NEW row, NEW full \in BOOLEAN,
           Repays(t, row, full)
    PROVE  RefundInv'
<1>1. /\ db'.txs = [db.txs EXCEPT ![t] = row] /\ UNCHANGED <<req, seen, owner, gw>>
      /\ t \in Rows /\ row # NoRow
  BY DEF Repays
<1>2. \A u \in TxId : db'.txs[u] = IF u = t THEN row ELSE db.txs[u]
  BY <1>1, OneRowWritten
<1>3. GoodRow(row) /\ row.gpid = db.txs[t].gpid
  BY DEF Repays, GoodRow, HasMoney, Settled, Open, RefundInv, RowsPaid
<1>4. RowsPaid' /\ PaymentOnce'
  BY <1>1, <1>3, GoodRowWritten DEF RefundInv, Rows
<1>5. \A u \in TxId : db.txs[u] # NoRow => Mild(db.txs[u], db'.txs[u])
  BY <1>2 DEF Repays, Mild
<1>6. SnapshotFollowed'
  BY <1>1, <1>5, MildFollowed DEF RefundInv, InCommit
<1>7. RefundsSettled'
  BY <1>2 DEF Repays, RefundInv, RefundsSettled, TypeInv, TypeOK
<1> QED
  BY <1>1, <1>4, <1>6, <1>7 DEF RefundInv, EventHeld, InCommit

\* Steps that write no row and take no request.
LEMMA UnwrittenRefundInv ==
    ASSUME TypeInv, RefundInv, GatewayGrows, ReceiptsKept, CaptureOnce', db' = db,
           \A t \in TxId : refunding'[t] # 0 => refunding[t] # 0 \/ db.txs[t].status \in Settled,
           \A v \in Worker : InCommit(v)' =>
               InCommit(v) /\ req'[v] = req[v] /\ seen'[v] = seen[v]
    PROVE  RefundInv'
<1>1. SnapshotFollowed'
  BY MildFollowed DEF RefundInv, Mild
<1>2. \A v \in Worker : InCommit(v) => req[v].ev.pay \in Payment
  BY DEF TypeInv, TypeOK, InCommit, Request, Idle, Event
<1>3. EventHeld'
  BY <1>2 DEF RefundInv, EventHeld, GatewayGrows
<1>4. RowsPaid' /\ PaymentOnce' /\ RefundsSettled'
  BY DEF RefundInv, RowsPaid, PaymentOnce, RefundsSettled, Rows, HasMoney, Paid, Unpaid,
         GatewayGrows
<1> QED
  BY <1>1, <1>3, <1>4 DEF RefundInv

\* Every step.
LEMMA NextRefundInv ==
    ASSUME VerifyAt \subseteq {"captured"}, TypeInv, RowInv, RefundInv, [Next]_vars, late' = {}
    PROVE  RefundInv'
<1>1. GatewayGrows /\ ReceiptsKept /\ CaptureOnce'
  BY NextGateway
<1>2. CASE \E e \in Event : Deliver(e)
  BY <1>2, BeginRefundInv DEF Deliver
<1>3. CASE \E w \in Worker : Finish(w)
  BY <1>1, <1>3, FinishOutcome, OutcomeRefundInv DEF RefundInv
<1>4. CASE \E o \in Order : PersistOrder(o)
  BY <1>1, <1>4, PersistWaits, WaitsRefundInv DEF RefundInv
<1>5. CASE \E t \in TxId : RefundCommit(t)
  BY <1>1, <1>5, RefundRepays, RepaysRefundInv DEF RefundInv
<1>6. CASE \E w \in Worker : Dispatch(w)
  <2>1. PICK w \in Worker : Dispatch(w)
    BY <1>6
  <2>2. \A v \in Worker : InCommit(v)' =>
            InCommit(v) /\ req'[v] = req[v] /\ seen'[v] = seen[v]
    BY <2>1 DEF Dispatch, Return, Idle, InCommit, TypeInv, TypeOK
  <2> QED
    BY <1>1, <2>1, <2>2, UnwrittenRefundInv DEF Dispatch, ledger
<1>7. CASE Crash
  <2>1. \A v \in Worker : ~InCommit(v)'
    BY <1>7 DEF Crash, InCommit, Idle
  <2> QED
    BY <1>1, <1>7, <2>1, UnwrittenRefundInv DEF Crash, ledger
<1>10. CASE \E t \in TxId : RefundLost(t)
  <2>1. /\ db' = db /\ UNCHANGED <<req, seen>>
        /\ \A t \in TxId : refunding'[t] \in {0, refunding[t]}
    BY <1>10 DEF RefundLost, ledger, TypeInv, TypeOK
  <2> QED
    BY <1>1, <2>1, UnwrittenRefundInv DEF InCommit
<1>8. CASE \E t \in TxId, amt \in 1 .. Total : RefundCall(t, amt)
  <2>1. PICK t \in TxId, amt \in 1 .. Total : RefundCall(t, amt)
    BY <1>8
  <2>2. /\ db' = db /\ UNCHANGED <<req, seen>> /\ db.txs[t].status \in Settled
        /\ \A u \in TxId \ {t} : refunding'[u] = refunding[u]
    BY <2>1 DEF RefundCall, Refundable, Settled, ledger, TypeInv, TypeOK
  <2> QED
    BY <1>1, <2>2, UnwrittenRefundInv DEF InCommit
<1>9. CASE db' = db /\ UNCHANGED <<refunding, req, seen>>
  BY <1>1, <1>9, UnwrittenRefundInv DEF InCommit
<1> QED
  BY <1>2, <1>3, <1>4, <1>5, <1>6, <1>7, <1>8, <1>9, <1>10
  DEF Next, PayNext, RefundNext, AckDuplicate, CreateOrder, ChooseRow, Fulfil, Attempt,
      Capture, DashboardRefund, ledger, server, vars

\* Initially there is no row and no payment.
LEMMA InitRefundInv == Init => RefundInv
<1>1. Idle.pc # "commit"
  BY DEF Idle
<1> QED
  BY <1>1 DEF Init, RefundInv, EventHeld, CaptureOnce, RowsPaid, PaymentOnce, RefundsSettled,
              SnapshotFollowed, Rows, Blank, InCommit

\* An order that was stored late stays so.
LEMMA LateGrows == [Next]_vars => late \subseteq late'
<1> SUFFICES ASSUME [Next]_vars
             PROVE  late \subseteq late'
  OBVIOUS
<1>1. CASE \E w \in Worker : Finish(w)
  BY <1>1, FinishBooks
<1>2. CASE \E o \in Order : PersistOrder(o)
  BY <1>2 DEF PersistOrder, StoreOrder
<1> QED
  BY <1>1, <1>2
  DEF Next, PayNext, RefundNext, Deliver, Begin, Dispatch, AckDuplicate, CreateOrder, ChooseRow,
      Fulfil, Attempt, Capture, Crash, RefundCall, RefundCommit, RefundLost, DashboardRefund,
      server, vars

\* Until an order is stored over a row that is not PENDING any more.
OnTime == late = {}
LEMMA OnTimeBefore == [Next]_vars /\ OnTime' => OnTime
BY LateGrows DEF OnTime

\* The inductive invariant of the refunds: as long as no order was stored late, a
\* paid row keeps the ids of its payment, whatever the refund endpoint, the events
\* and the crashes do (process_refund, handle_payment_refund, PersistOrder).
THEOREM RefundInvariant ==
    ASSUME UnkeyedKinds = {}, VerifyAt \subseteq {"captured"}
    PROVE  Spec => [](TypeInv /\ RowInv /\ (OnTime => RefundInv))
<1>1. TypeInv /\ RowInv /\ RefundInv /\ [Next]_vars /\ OnTime' => RefundInv'
  BY NextRefundInv DEF OnTime
<1> QED
  BY <1>1, InitRefundInv, OnTimeBefore, TypeInvariant, RowInvariant, PTL DEF Spec
-----------------------------------------------------------------------------
(* The Refund rows claim what the gateway paid back, unless the checkout's *)
(* verify endpoint runs beside authorizations or failures: only then may a *)
(* row hold ids of an order it was not paid with when its money comes in.  *)

VerifyAlone ==
    \/ "VERIFY_ENDPOINT" \notin Subscribed
    \/ {"payment.authorized", "payment.failed"} \cap Subscribed = {}

\* The ids of an event lead to its order.
LEMMA EventOrder ==
    ASSUME TypeInv, NEW w \in Worker, InCommit(w)
    PROVE  /\ req[w].ev.pay \in Payment
           /\ \A id \in GatewayIds(req[w].ev) : OrderBehind(id) = gw[req[w].ev.pay].ord
<1> DEFINE e == req[w].ev
<1>1. e \in Event /\ OrderOf(e) # NoId
  BY DEF TypeInv, TypeOK, ReceiptsKnown, InCommit, Request, Idle
<1>2. OrderOf(e) \in Order /\ e.pay \in Payment
  BY <1>1, EventIds DEF TypeInv
<1> QED
  BY <1>2, IdAssumption DEF GatewayIds, OrderBehind, OrderOf

\* An event that finds a row with money is one of the order the money was paid
\* for; and if it brings money, it is that payment's.
LEMMA MoneyFound ==
    ASSUME TypeInv, RefundInv, OneOrder, NEW w \in Worker, InCommit(w), NEW t \in TxId,
           HasRow(w, t), HasMoney(db.txs[t])
    PROVE  /\ seen[w].txs[t].status \notin Open
           /\ gw[req[w].ev.pay].ord = gw[db.txs[t].gpid].ord
           /\ req[w].ev.kind \in SuccessKind => req[w].ev.pay = db.txs[t].gpid
<1> DEFINE e == req[w].ev  old == seen[w].txs[t]  cur == db.txs[t]
<1>1. cur \in Row /\ t \in Rows /\ Follows(old, cur)
  BY RowIsRow DEF HasRow, Rows
<1>2. cur.status \notin Open /\ Paid(cur.gpid)
  BY <1>1 DEF RefundInv, RowsPaid, HasMoney, Open, Settled
<1>3. old.status \notin Open
  BY <1>1, <1>2 DEF Follows, Open, Settled
<1>4. Shares(old, e) /\ cur.gpid = old.gpid /\ cur.resp = old.resp
  BY <1>1, <1>3 DEF HasRow, Follows, Open
<1>5. PICK id \in GatewayIds(e) : id \in StoredIds(cur)
  BY <1>4 DEF Shares, StoredIds
<1>6. OrderBehind(id) = gw[cur.gpid].ord
  BY <1>1, <1>5 DEF OneOrder
<1>7. gw[e.pay].ord = gw[cur.gpid].ord /\ e.pay \in Payment
  BY <1>5, <1>6, EventOrder
<1>8. e.kind \in SuccessKind => e.pay = cur.gpid
  BY <1>2, <1>7 DEF RefundInv, EventHeld, CaptureOnce, Paid
<1> QED
  BY <1>3, <1>7, <1>8

\* What one written row must satisfy.
BackedRow(row) ==
    /\ row.refunded > 0 => row.refunded <= gw[row.gpid].refunded
    /\ HasMoney(row) => \A id \in StoredIds(row) : OrderBehind(id) = gw[row.gpid].ord
    /\ "VERIFY_ENDPOINT" \in Subscribed => row.status \in {"PENDING"} \cup Settled
\* Every row a request writes does.
LEMMA HandledBacked ==
    ASSUME VerifyAlone, TypeInv, RefundInv, BackedInv, NEW w \in Worker, InCommit(w),
           NEW t \in TxId, NEW row, HandledRow(w, t, row)
    PROVE  BackedRow(row)
<1> DEFINE e == req[w].ev  old == seen[w].txs[t]  cur == db.txs[t]
<1>1. refunding[t] = 0 /\ row.bk = e.ref
  BY DEF HandledRow, Writes
<1>2. HasRow(w, t) => /\ t \in Rows /\ cur.refunded \in Nat /\ Follows(old, cur)
                      /\ cur.refunded > 0 => cur.refunded <= gw[cur.gpid].refunded
                      /\ "VERIFY_ENDPOINT" \in Subscribed => cur.status \in {"PENDING"} \cup Settled
                      /\ HasMoney(cur) =>
                           \A id \in StoredIds(cur) : OrderBehind(id) = gw[cur.gpid].ord
  <2> SUFFICES ASSUME HasRow(w, t)
               PROVE  /\ t \in Rows /\ cur.refunded \in Nat /\ Follows(old, cur)
                      /\ cur.refunded > 0 => cur.refunded <= gw[cur.gpid].refunded
                      /\ "VERIFY_ENDPOINT" \in Subscribed => cur.status \in {"PENDING"} \cup Settled
                      /\ HasMoney(cur) =>
                           \A id \in StoredIds(cur) : OrderBehind(id) = gw[cur.gpid].ord
    OBVIOUS
  <2>1. t \in Rows /\ cur.refunded \in Nat /\ Follows(old, cur)
    BY RowIsRow, BoundAssumption DEF HasRow, Rows, Row
  <2>2. Claims(t) = cur.refunded
    BY <1>1, <2>1 DEF Claims
  <2> QED
    BY <2>1, <2>2 DEF BackedInv, Backed, OneOrder, VerifiedRows
<1>3. e.pay \in Payment /\ \A id \in GatewayIds(e) : OrderBehind(id) = gw[e.pay].ord
  BY EventOrder
<1>4. e.kind \in Subscribed
  BY DEF RefundInv, EventHeld
<1>5. HasRow(w, t) /\ HasMoney(cur) =>
        /\ old.status \notin Open
        /\ gw[e.pay].ord = gw[cur.gpid].ord
        /\ e.kind \in SuccessKind => e.pay = cur.gpid
  BY MoneyFound DEF BackedInv
<1>6. CASE Lands(w, t, row)
  <2>1. /\ HasRow(w, t) /\ e.kind \in SuccessKind
        /\ row.gpid = e.pay /\ row.refunded = cur.refunded
        /\ row.resp = MergedResponse(old.resp, e)
    BY <1>6 DEF Lands
  <2>2. row.refunded > 0 => row.refunded <= gw[row.gpid].refunded
    BY <1>2, <1>5, <2>1 DEF HasMoney
  <2>3. e.kind = "VERIFY_ENDPOINT" =>
            \A id \in old.resp.payload : OrderBehind(id) = gw[e.pay].ord
    <3>1. CASE old.status = "PENDING"
      BY <1>2, <2>1, <3>1 DEF Follows, Unpaid
    <3>2. CASE old.status # "PENDING" /\ e.kind = "VERIFY_ENDPOINT"
      <4>1. cur.status \in Settled /\ cur.resp = old.resp
        BY <1>2, <1>4, <2>1, <3>2 DEF Follows, Settled
      <4> QED
        BY <1>2, <1>5, <2>1, <4>1 DEF HasMoney, StoredIds
    <3> QED
      BY <3>1, <3>2
  <2>4. StoredIds(row) \subseteq GatewayIds(e) \cup
            (IF e.kind = "VERIFY_ENDPOINT" THEN old.resp.payload ELSE {})
    BY <2>1 DEF StoredIds, MergedResponse, GatewayIds
  <2>5. \A id \in StoredIds(row) : OrderBehind(id) = gw[row.gpid].ord
    BY <1>3, <2>1, <2>3, <2>4
  <2>6. row.status \in Settled
    BY <1>2, <1>6, <2>1 DEF Lands, Follows, Settled
  <2> QED
    BY <2>2, <2>5, <2>6 DEF BackedRow
<1>7. CASE Inserts(w, t, row)
  <2>1. row.refunded = 0 /\ row.status \in Settled /\ row.gpid = e.pay
        /\ StoredIds(row) \subseteq GatewayIds(e)
    BY <1>7 DEF Inserts, Settled
  <2> QED
    BY <1>3, <2>1 DEF BackedRow
<1>8. CASE Authorizes(w, t, row)
  <2>1. row.refunded = 0 /\ row.status = "PROCESSING"
    BY <1>2, <1>8 DEF Authorizes, RefundInv, RowsPaid, Open
  <2>2. "VERIFY_ENDPOINT" \notin Subscribed
    BY <1>4, <1>8 DEF Authorizes, VerifyAlone
  <2> QED
    BY <2>1, <2>2 DEF BackedRow, HasMoney, Settled
<1>9. CASE Fails(w, t, row)
  <2>1. "VERIFY_ENDPOINT" \notin Subscribed
    BY <1>4, <1>9 DEF Fails, VerifyAlone
  <2>2. /\ row.gpid = cur.gpid /\ row.refunded = cur.refunded /\ row.status = "FAILED"
        /\ row.resp = RawResponse(e) \/ row.resp = cur.resp
        /\ HasRow(w, t)
    BY <1>9 DEF Fails
  <2>3. HasMoney(row) => HasMoney(cur)
    BY <2>2 DEF HasMoney, Settled
  <2>4. StoredIds(row) \subseteq StoredIds(cur) \cup GatewayIds(e)
    BY <2>2 DEF StoredIds, RawResponse
  <2>5. HasMoney(row) => \A id \in StoredIds(row) : OrderBehind(id) = gw[row.gpid].ord
    BY <1>2, <1>3, <1>5, <2>2, <2>3, <2>4
  <2> QED
    BY <1>2, <2>1, <2>2, <2>5 DEF BackedRow
<1>10. ASSUME NEW full \in BOOLEAN, Refunds(w, t, row, full)
       PROVE  BackedRow(row)
  <2>1. /\ row.gpid = cur.gpid /\ row.resp = cur.resp /\ row.refunded = cur.refunded
        /\ HasRow(w, t)
    BY <1>10 DEF Refunds
  <2>2. cur.status \in Settled
    BY <1>2, <1>10, <2>1 DEF Refunds, Follows, Settled
  <2>3. row.status \in Settled
    BY <1>10, <2>2 DEF Refunds, Column, Settled
  <2> QED
    BY <1>2, <2>1, <2>2, <2>3 DEF BackedRow, HasMoney, StoredIds
<1> QED
  BY <1>6, <1>7, <1>8, <1>9, <1>10 DEF HandledRow

\* Writing one such row.
LEMMA BackedRowWritten ==
    ASSUME TypeInv, BackedInv, NEW t \in TxId, NEW row, BackedRow(row), refunding'[t] = 0,
           db'.txs = [db.txs EXCEPT ![t] = row], gw' = gw, row.refunded \in Nat,
           \A u \in TxId \ {t} : refunding'[u] = refunding[u]
    PROVE  BackedInv'
<1>1. \A u \in TxId : db'.txs[u] = IF u = t THEN row ELSE db.txs[u]
  BY OneRowWritten
<1>2. Backed'
  <2> SUFFICES ASSUME NEW u \in Rows', Claims(u)' > 0
               PROVE  Claims(u)' <= gw'[db'.txs[u].gpid].refunded
    BY DEF Backed
  <2>1. CASE u = t
    BY <1>1, <2>1 DEF BackedRow, Claims, Rows
  <2>2. CASE u # t
    <3>1. u \in Rows /\ Claims(u)' = Claims(u)
      BY <1>1, <2>2 DEF Claims, Rows
    <3> QED
      BY <1>1, <2>2, <3>1 DEF BackedInv, Backed
  <2> QED
    BY <2>1, <2>2
<1>3. OneOrder' /\ VerifiedRows'
  BY <1>1 DEF BackedInv, BackedRow, OneOrder, VerifiedRows, Rows, OrderBehind, HasMoney
<1> QED
  BY <1>2, <1>3 DEF BackedInv

\* Steps that write no row: the orders behind the ids stay what they are.
LEMMA UnwrittenBacked ==
    ASSUME TypeInv, IdsOwned, RefundInv, BackedInv, ReceiptsKept, db' = db,
           \A t \in Rows : Claims(t)' > 0 => Claims(t)' <= gw'[db.txs[t].gpid].refunded
    PROVE  BackedInv'
<1>1. Backed'
  BY DEF Backed, Rows
<1>2. \A t \in Rows : \A id \in StoredIds(db.txs[t]) : OrderBehind(id)' = OrderBehind(id)
  BY IdAssumption DEF IdsOwned, RowOwned, BelongsTo, Receipt, ReceiptsKept, OrderBehind
<1>3. \A t \in Rows : HasMoney(db.txs[t]) => gw'[db.txs[t].gpid].ord = gw[db.txs[t].gpid].ord
  <2> SUFFICES ASSUME NEW t \in Rows, HasMoney(db.txs[t])
               PROVE  gw'[db.txs[t].gpid].ord = gw[db.txs[t].gpid].ord
    OBVIOUS
  <2>1. db.txs[t].gpid \in StoredIds(db.txs[t])
    BY DEF StoredIds
  <2>2. db.txs[t].gpid \in Payment /\ BelongsTo(db.txs[t].gpid, db.txs[t].bk)
    BY <2>1 DEF RefundInv, RowsPaid, Paid, IdsOwned, RowOwned
  <2> QED
    BY <2>1, <2>2, IdAssumption DEF BelongsTo, Receipt, ReceiptsKept
<1>4. OneOrder'
  BY <1>2, <1>3 DEF BackedInv, OneOrder, Rows, HasMoney, StoredIds
<1>5. VerifiedRows'
  BY DEF BackedInv, VerifiedRows, Rows
<1> QED
  BY <1>1, <1>4, <1>5 DEF BackedInv
\* Every step.
LEMMA NextBacked ==
    ASSUME VerifyAlone, VerifyAt \subseteq {"captured"},
           TypeInv, TypeInv', RowInv, IdsOwned, RefundInv, BackedInv, [Next]_vars,
           late' = {}
    PROVE  BackedInv'
<1>1. GatewayGrows /\ ReceiptsKept
  BY NextGateway
<1>2. \A t \in TxId : refunding[t] \in Nat
  BY BoundAssumption DEF TypeInv, TypeOK
<1>3. \A t \in Rows : /\ db.txs[t] \in Row /\ db.txs[t].refunded \in Nat
                      /\ Claims(t) > 0 => /\ db.txs[t].gpid \in Payment
                                          /\ Claims(t) <= gw[db.txs[t].gpid].refunded
  <2> SUFFICES ASSUME NEW t \in Rows
               PROVE  /\ db.txs[t] \in Row /\ db.txs[t].refunded \in Nat
                      /\ Claims(t) > 0 => /\ db.txs[t].gpid \in Payment
                                          /\ Claims(t) <= gw[db.txs[t].gpid].refunded
    OBVIOUS
  <2>1. db.txs[t] \in Row /\ db.txs[t].refunded \in Nat /\ t \in TxId
    BY BoundAssumption DEF TypeInv, TypeOK, Table, Rows, Row
  <2>2. Claims(t) > 0 => HasMoney(db.txs[t])
    BY <1>2, <2>1 DEF Claims, HasMoney, RefundInv, RefundsSettled
  <2> QED
    BY <2>1, <2>2 DEF RefundInv, RowsPaid, Paid, BackedInv, Backed
<1>4. \A p \in Payment : gw[p].refunded \in Nat /\ gw'[p].refunded \in Nat
  BY BoundAssumption DEF TypeInv, TypeOK, GatewayPayment
<1>5. CASE \E w \in Worker : Finish(w)
  <2>1. PICK w \in Worker : InCommit(w) /\ Outcome(w)
    BY <1>5, FinishOutcome DEF RefundInv
  <2>2. CASE db' = db /\ UNCHANGED <<refunding, owner, gw>>
    BY <1>1, <1>3, <2>2, UnwrittenBacked DEF Claims
  <2>3. ASSUME NEW t \in TxId, NEW row, HandledRow(w, t, row)
        PROVE  BackedInv'
    <3>1. BackedRow(row)
      BY <2>1, <2>3, HandledBacked
    <3>2. /\ db'.txs = [db.txs EXCEPT ![t] = row] /\ row # NoRow /\ gw' = gw
          /\ refunding' = refunding /\ refunding[t] = 0
      BY <2>3 DEF HandledRow, Writes
    <3>3. row.refunded \in Nat
      <4>1. db'.txs[t] = row /\ db'.txs[t] \in Row \cup {NoRow}
        BY <3>2, OneRowWritten DEF TypeInv, TypeOK, Table
      <4> QED
        BY <3>2, <4>1, BoundAssumption DEF Row
    <3> QED
      BY <3>1, <3>2, <3>3, BackedRowWritten
  <2> QED
    BY <2>1, <2>2, <2>3 DEF Outcome
<1>6. CASE \E o \in Order : PersistOrder(o)
  <2>1. PICK t \in TxId : \E row : Waits(t, row)
    BY <1>6, PersistWaits DEF RefundInv
  <2>5. PICK row : Waits(t, row)
    BY <2>1
  <2>2. refunding[t] = 0
    BY <2>5 DEF Waits, RefundInv, RefundsSettled, TypeInv, RefundFits, Settled
  <2>3. BackedRow(row) /\ row.refunded \in Nat
    BY <2>5 DEF Waits, BackedRow, HasMoney, Settled
  <2>4. db'.txs = [db.txs EXCEPT ![t] = row] /\ UNCHANGED <<refunding, gw>>
    BY <2>5 DEF Waits, TypeInv, TypeOK, Table
  <2> QED
    BY <2>2, <2>3, <2>4, BackedRowWritten
<1>7. CASE \E t \in TxId : RefundCommit(t)
  <2>1. PICK t \in TxId : \E row : \E full \in BOOLEAN : Repays(t, row, full)
    BY <1>7, RefundRepays DEF RefundInv
  <2>6. PICK row : \E full \in BOOLEAN : Repays(t, row, full)
    BY <2>1
  <2>2. row.refunded = Claims(t) /\ t \in Rows /\ row.gpid = db.txs[t].gpid /\ row.resp = db.txs[t].resp
        /\ db.txs[t].status \in Settled /\ row.status \in Settled
    BY <2>6 DEF Repays, Claims, Settled
  <2>3. Claims(t) \in Nat
    BY <1>2, <1>3, <2>2 DEF Claims, Rows
  <2>4. BackedRow(row)
    BY <2>2 DEF BackedInv, Backed, OneOrder, BackedRow, HasMoney, StoredIds
  <2>5. /\ db'.txs = [db.txs EXCEPT ![t] = row] /\ gw' = gw /\ refunding'[t] = 0
        /\ \A u \in TxId \ {t} : refunding'[u] = refunding[u]
    BY <2>6 DEF Repays, TypeInv, TypeOK
  <2> QED
    BY <2>2, <2>3, <2>4, <2>5, BackedRowWritten
<1>8. CASE \E t \in TxId, amt \in 1 .. Total : RefundCall(t, amt)
  <2>1. PICK t \in TxId, amt \in 1 .. Total : RefundCall(t, amt)
    BY <1>8
  <2>4. /\ db' = db /\ refunding[t] = 0 /\ refunding'[t] = amt
        /\ \A u \in TxId \ {t} : refunding'[u] = refunding[u]
        /\ db.txs[t].gpid \in Payment
    BY <2>1 DEF RefundCall, Unlocked, ledger, TypeInv, TypeOK
  <2>5. ASSUME NEW p \in Payment, RefundAtGateway(p, amt)
        PROVE  gw'[p].refunded = gw[p].refunded + amt
    BY <2>5 DEF RefundAtGateway, TypeInv, TypeOK, GatewayPayment
  <2>2. /\ db' = db /\ refunding[t] = 0 /\ refunding'[t] = amt
        /\ \A u \in TxId \ {t} : refunding'[u] = refunding[u]
        /\ db.txs[t].gpid \in Payment
        /\ gw'[db.txs[t].gpid].refunded = gw[db.txs[t].gpid].refunded + amt
    BY <2>1, <2>4, <2>5 DEF RefundCall
  <2>3. ASSUME NEW u \in Rows, Claims(u)' > 0
        PROVE  Claims(u)' <= gw'[db.txs[u].gpid].refunded
    <3>1. CASE u = t
      <4>1. Claims(u)' = Claims(u) + amt /\ Claims(u) = db.txs[u].refunded
        BY <1>3, <2>2, <3>1 DEF Claims
      <4>2. Claims(u) <= gw[db.txs[u].gpid].refunded
        BY <1>3, <1>4, <2>2, <3>1, <4>1
      <4> QED
        BY <1>3, <1>4, <2>2, <3>1, <4>1, <4>2
    <3>2. CASE u # t
      <4>1. Claims(u)' = Claims(u)
        BY <2>2, <3>2 DEF Claims, Rows
      <4> QED
        BY <1>1, <1>2, <1>3, <1>4, <2>3, <4>1 DEF GatewayGrows, Claims, Rows
    <3> QED
      BY <3>1, <3>2
  <2> QED
    BY <1>1, <2>2, <2>3, UnwrittenBacked
<1>9. CASE db' = db /\ \A t \in TxId : refunding'[t] \in {0, refunding[t]}
  <2>1. ASSUME NEW u \in Rows, Claims(u)' > 0
        PROVE  Claims(u)' <= gw'[db.txs[u].gpid].refunded
    <3>1. Claims(u)' <= Claims(u) /\ Claims(u)' \in Nat /\ Claims(u) \in Nat
      BY <1>2, <1>3, <1>9 DEF Claims, Rows
    <3> QED
      BY <1>1, <1>3, <1>4, <2>1, <3>1 DEF GatewayGrows
  <2> QED
    BY <1>1, <1>9, <2>1, UnwrittenBacked
<1>10. CASE Crash
  BY <1>9, <1>10 DEF Crash, ledger
<1>11. CASE UNCHANGED <<db, refunding>>
  BY <1>9, <1>11
<1>12. CASE \E t \in TxId : RefundLost(t)
  BY <1>9, <1>12 DEF RefundLost, ledger, TypeInv, TypeOK
<1> QED
  BY <1>5, <1>6, <1>7, <1>8, <1>10, <1>11, <1>12
  DEF Next, PayNext, RefundNext, Deliver, Begin, Dispatch, AckDuplicate, CreateOrder, ChooseRow,
      Fulfil, Attempt, Capture, DashboardRefund, ledger, server, vars

\* Initially there is nothing to back.
LEMMA InitBacked == Init => BackedInv
BY DEF Init, BackedInv, Backed, OneOrder, VerifiedRows, Rows, Blank

\* Until an order is stored late: however the refunds of the API, those of the
\* gateway's dashboard, the refund events and other payments for the booking
\* interleave with each other and with crashes, the Refund rows of a transaction
\* never claim more than the gateway paid back for its payment (process_refund;
\* the balance check reads those rows).
THEOREM RefundsRealTheorem ==
    ASSUME UnkeyedKinds = {}, VerifyAt \subseteq {"captured"}, VerifyAlone
    PROVE  Spec => [](OnTime => RefundsReal)
<1>1. TypeInv /\ RefundInv /\ BackedInv => RefundsReal
  <2> SUFFICES ASSUME TypeInv, RefundInv, BackedInv, NEW t \in Rows, db.txs[t].refunded > 0
               PROVE  /\ db.txs[t].gpid \in Payment
                      /\ db.txs[t].refunded <= gw[db.txs[t].gpid].refunded
    BY DEF RefundsReal
  <2>1. /\ t \in TxId /\ db.txs[t].refunded \in Nat /\ refunding[t] \in Nat
    BY BoundAssumption DEF TypeInv, TypeOK, Table, Rows, Row
  <2>2. HasMoney(db.txs[t])
    BY DEF HasMoney
  <2>3. db.txs[t].gpid \in Payment
    BY <2>2 DEF RefundInv, RowsPaid, Paid
  <2>4. gw[db.txs[t].gpid].refunded \in Nat
    BY <2>3, BoundAssumption DEF TypeInv, TypeOK, GatewayPayment
  <2> QED
    BY <2>1, <2>3, <2>4 DEF BackedInv, Backed, Claims
<1>2. TypeInv /\ TypeInv' /\ RowInv /\ IdsOwned /\ RefundInv /\ BackedInv /\ [Next]_vars
        /\ OnTime' => BackedInv'
  BY NextBacked DEF OnTime
<1> QED
  BY <1>1, <1>2, InitBacked, InitOwned, NextOwned, OnTimeBefore, RefundInvariant, PTL DEF Spec
-----------------------------------------------------------------------------
(* No booking is left confirmed without its money, refunds included: a request *)
(* that writes its booking has the version it loaded, so no full refund came   *)
(* in between.  Without payment.failed webhooks: a late one fails a partially  *)
(* refunded row.                                                               *)

Covering == {"SUCCESSFUL", "PARTIALLY_REFUNDED"}

NoFailures == \A w \in Worker : InCommit(w) => req[w].ev.kind # "payment.failed"

\* Behind the back of the request that loaded a row of its booking, the row stops
\* covering the booking only with the booking's version, and only refunds move it.
StatusKept ==
    \A w \in Worker, t \in TxId :
        LET old == seen[w].txs[t]  cur == db.txs[t] IN
        InCommit(w) /\ old # NoRow /\ old.bk = req[w].ev.ref
            => /\ old.status \in Covering /\ w \notin stale => cur.status \in Covering
               /\ old.status \notin Settled => cur.status = old.status

SoundInv == RefundsSettled /\ NoFailures /\ StatusKept /\ ConfirmedBacked

\* Request w writes row t of its booking; unless the row covers the booking
\* afterwards, the booking is not confirmed or did not rest on the row.
Changes(w, t, row) ==
    /\ db'.txs = [db.txs EXCEPT ![t] = row] /\ row # NoRow
    /\ row.bk = req[w].ev.ref
    /\ db.txs[t] = NoRow \/ db.txs[t].bk = row.bk
    /\ refunding[t] = 0
    /\ \A c \in Booking \ {row.bk} : db'.booking[c] = db.booking[c]
    /\ \/ row.status \in Covering
       \/ db'.booking[row.bk] # "CONFIRMED"
       \/ /\ db'.booking = db.booking
          /\ db.txs[t] # NoRow => db.txs[t].status \notin Covering

\* The request is over, and nobody else's version was forgotten.
Leaves(w) == Over(w) /\ refunding' = refunding /\ stale \ {w} \subseteq stale'
Ends(w) ==
    /\ Leaves(w)
    /\ db' = db \/ \E t \in TxId : \E row : Changes(w, t, row)

\* What was stale for another request stays so.
LEMMA WrittenGrows ==
    ASSUME TypeInv, NEW w, NEW B, Written(w, B)
    PROVE  stale \ {w} \subseteq stale'
BY DEF TypeInv, TypeOK, Written, Stale

\* What a request loaded of the row it is about.
LEMMA LoadedStatus ==
    ASSUME TypeInv, RowInv, StatusKept, NEW w \in Worker, InCommit(w),
           NEW asked \in BOOLEAN, NEW t \in Resolved(seen[w], req[w].ev, asked), t # 0
    PROVE  LET old == seen[w].txs[t]  cur == db.txs[t] IN
           /\ t \in TxId /\ old \in Row /\ cur \in Row
           /\ old.bk = req[w].ev.ref /\ cur.bk = req[w].ev.ref
           /\ old.status \in Covering /\ w \notin stale => cur.status \in Covering
           /\ old.status \notin Settled => cur.status = old.status
<1>1. t \in TxId /\ seen[w].txs[t] \in Row /\ db.txs[t] \in Row /\ seen[w].txs[t] # NoRow
  BY Handling, RowIsRow
<1>2. seen[w].txs[t].bk = req[w].ev.ref /\ db.txs[t].bk = req[w].ev.ref
  BY Fresh
<1> QED
  BY <1>1, <1>2 DEF StatusKept

\* A confirmation: the request has the booking in the version it loaded.
LEMMA ConfirmEnds ==
    ASSUME TypeInv, RowInv, StatusKept, NEW w \in Worker, InCommit(w),
           NEW asked \in BOOLEAN, NEW t \in Resolved(seen[w], req[w].ev, asked),
           NEW b \in ResolvedBooking(seen[w], req[w].ev, t),
           ~Outdated(w, seen[w], req[w].ev, t, b),
           FinishConfirm(w, seen[w], req[w].ev, t, b)
    PROVE  Ends(w)
<1> DEFINE e == req[w].ev  cur == db.txs[t]  old == seen[w].txs[t]
           row == SettledRow(old, e, b)  upd == Update(cur, old, row)
           r == [pc |-> "dispatch", ev |-> e, tx |-> t]
<1>1. t # 0 /\ refunding[t] = 0 /\ w \notin stale
  BY DEF FinishConfirm, Unlocked, Outdated
<1>2. /\ t \in TxId /\ old \in Row /\ cur \in Row
      /\ old.bk = e.ref /\ cur.bk = e.ref /\ b = e.ref /\ b \in Booking
      /\ old.status \in Covering => cur.status \in Covering
  BY <1>1, LoadedStatus, Fresh
<1>3. row.bk = b /\ row.status = "SUCCESSFUL"
  BY <1>2 DEF SettledRow, Row
<1>4. /\ db' = [txs |-> [db.txs EXCEPT ![t] = upd], booking |-> SetBooking(b, "CONFIRMED")]
      /\ req' = [req EXCEPT ![w] = r] /\ seen' = [seen EXCEPT ![w] = Blank]
      /\ Written(w, {b}) /\ refunding' = refunding
  BY DEF FinishConfirm, Confirmed
<1>5. upd.bk = e.ref /\ upd.status \in Covering
  <2> HIDE DEF cur, old, row
  <2> QED
    BY <1>2, <1>3, UpdateColumns DEF Column, Covering
<1>6. r.pc # "commit"
  OBVIOUS
<1> HIDE DEF upd, r
<1>7. upd # NoRow
  BY <1>5 DEF Covering, NoRow
<1>8. \A c \in Booking \ {b} : db'.booking[c] = db.booking[c]
  BY <1>4 DEF SetBooking, TypeInv, TypeOK, Table
<1>9. Changes(w, t, upd)
  BY <1>1, <1>2, <1>4, <1>5, <1>7, <1>8 DEF Changes
<1>10. Leaves(w)
  BY <1>4, <1>6, WrittenGrows DEF Leaves, Over
<1> QED
  BY <1>2, <1>9, <1>10 DEF Ends

\* Money that comes in on a new row covers the booking.
LEMMA InsertEnds ==
    ASSUME TypeInv, RowInv, NEW w \in Worker, InCommit(w),
           NEW asked \in BOOLEAN, NEW t \in Resolved(seen[w], req[w].ev, asked),
           NEW b \in ResolvedBooking(seen[w], req[w].ev, t),
           FinishConfirmUnmatched(w, seen[w], req[w].ev, t, b, asked)
               \/ FinishDuplicate(w, seen[w], req[w].ev, t, b, asked)
    PROVE  Ends(w)
<1> DEFINE e == req[w].ev
<1>1. b = e.ref /\ b \in Booking
  BY Fresh
<1>2. \A n \in TxId : FreeRow(n) => db.txs[n] = NoRow /\ refunding[n] = 0
  BY DEF FreeRow, TypeInv, RefundFits
<1>3. \A c \in Booking \ {b} : SetBooking(b, "CONFIRMED")[c] = db.booking[c]
  BY DEF SetBooking, TypeInv, TypeOK, Table
<1>4. CASE FinishConfirmUnmatched(w, seen[w], e, t, b, asked)
  <2> DEFINE row == SettledRow(NewRow(b, "PENDING", OrderOf(e), RawResponse(e), FALSE), e, b)
  <2>1. PICK n \in TxId : FreeRow(n) /\ Confirmed(w, e, n, b, row)
    BY <1>4 DEF FinishConfirmUnmatched
  <2> DEFINE r == [pc |-> "dispatch", ev |-> e, tx |-> n]
  <2>2. row.bk = b /\ row.status = "SUCCESSFUL"
    BY DEF SettledRow, NewRow
  <2>3. /\ db' = [txs |-> [db.txs EXCEPT ![n] = row], booking |-> SetBooking(b, "CONFIRMED")]
        /\ req' = [req EXCEPT ![w] = r] /\ seen' = [seen EXCEPT ![w] = Blank]
        /\ Written(w, {b}) /\ refunding' = refunding
    BY <2>1 DEF Confirmed
  <2>4. r.pc # "commit"
    OBVIOUS
  <2> HIDE DEF row, r
  <2>5. Changes(w, n, row)
    BY <1>1, <1>2, <1>3, <2>1, <2>2, <2>3 DEF Changes, Covering, NoRow
  <2>6. Leaves(w)
    BY <2>3, <2>4, WrittenGrows DEF Leaves, Over
  <2> QED
    BY <2>1, <2>5, <2>6 DEF Ends
<1>5. CASE FinishDuplicate(w, seen[w], e, t, b, asked)
  <2> DEFINE row == NewRow(b, "SUCCESSFUL", e.pay, RawResponse(e), TRUE)
  <2>1. PICK n \in TxId : FreeRow(n) /\ db' = [db EXCEPT !.txs[n] = row]
    BY <1>5 DEF FinishDuplicate
  <2>2. row.bk = b /\ row.status = "SUCCESSFUL"
    BY DEF NewRow
  <2> HIDE DEF row
  <2>3. db'.txs = [db.txs EXCEPT ![n] = row] /\ db'.booking = db.booking
    BY <2>1 DEF TypeInv, TypeOK, Table
  <2>4. Changes(w, n, row)
    BY <1>1, <1>2, <2>1, <2>2, <2>3 DEF Changes, Covering, NoRow
  <2>5. Leaves(w)
    BY <1>5, ReturnOver, WrittenGrows DEF FinishDuplicate, Leaves
  <2> QED
    BY <2>1, <2>4, <2>5 DEF Ends
<1> QED
  BY <1>4, <1>5

\* A handler that commits leaves.
LEMMA CommitLeaves ==
    ASSUME TypeInv, NEW w, NEW e, NEW txs, NEW booking, NEW B, Commit(w, e, txs, booking, B)
    PROVE  Leaves(w) /\ db' = [txs |-> txs, booking |-> booking]
BY ReturnOver, WrittenGrows DEF Leaves, Commit

\* A handler that commits no row ends its request.
LEMMA NothingEnds ==
    ASSUME TypeInv, NEW w, NEW e, NEW B, Commit(w, e, db.txs, db.booking, B)
    PROVE  Ends(w)
BY CommitLeaves DEF Ends, TypeInv, TypeOK, Table

\* An authorization touches a row that does not cover anything.
LEMMA AuthorizedEnds ==
    ASSUME TypeInv, RowInv, StatusKept, NEW w \in Worker, InCommit(w),
           NEW asked \in BOOLEAN, NEW t \in Resolved(seen[w], req[w].ev, asked), NEW b,
           FinishAuthorized(w, seen[w], req[w].ev, t, b)
    PROVE  Ends(w)
<1> DEFINE e == req[w].ev  old == seen[w].txs[t]  cur == db.txs[t]
           row == [old EXCEPT !.status = "PROCESSING", !.gpid = e.pay, !.resp = RawResponse(e)]
           upd == Update(cur, old, row)
<1>1. CASE t # 0 /\ old.status = "PENDING"
  <2>1. /\ t \in TxId /\ old \in Row /\ cur \in Row /\ old.bk = e.ref /\ cur.bk = e.ref
        /\ cur.status = "PENDING"
    BY <1>1, LoadedStatus DEF Settled
  <2>2. row.bk = old.bk /\ row.status = "PROCESSING"
    BY <2>1 DEF Row
  <2>3. Commit(w, e, WriteRow(seen[w], t, row), db.booking, {b}) /\ refunding[t] = 0
    BY <1>1 DEF FinishAuthorized, Unlocked
  <2>4. /\ Leaves(w) /\ db'.booking = db.booking
        /\ db'.txs = [db.txs EXCEPT ![t] = upd]
    BY <2>3, CommitLeaves DEF WriteRow
  <2>5. upd.bk = e.ref /\ upd.status = "PROCESSING"
    <3> HIDE DEF cur, old, row
    <3> QED
      BY <1>1, <2>1, <2>2, UpdateColumns DEF Column
  <2> HIDE DEF upd
  <2>6. Changes(w, t, upd)
    BY <2>1, <2>3, <2>4, <2>5 DEF Changes, Covering, NoRow
  <2> QED
    BY <2>1, <2>4, <2>6 DEF Ends
<1>2. CASE ~(t # 0 /\ old.status = "PENDING")
  BY <1>2, NothingEnds DEF FinishAuthorized
<1> QED
  BY <1>1, <1>2

\* A refund event: a full one takes the booking with it.
LEMMA RefundEnds ==
    ASSUME TypeInv, RowInv, StatusKept, NEW w \in Worker, InCommit(w),
           NEW asked \in BOOLEAN, NEW t \in Resolved(seen[w], req[w].ev, asked),
           NEW b \in ResolvedBooking(seen[w], req[w].ev, t),
           FinishRefund(w, seen[w], req[w].ev, t, b)
    PROVE  Ends(w)
<1> DEFINE e == req[w].ev  old == seen[w].txs[t]  cur == db.txs[t]  full == (e.cum = Total)
           row == RefundedRow(old, full)  upd == Update(cur, old, row)
           booking == IF full THEN SetBooking(b, "CANCELLED") ELSE db.booking
<1>1. t # 0 /\ refunding[t] = 0
  BY DEF FinishRefund, Unlocked
<1>2. /\ t \in TxId /\ old \in Row /\ cur \in Row /\ old.bk = e.ref /\ cur.bk = e.ref
      /\ b = e.ref /\ b \in Booking
  BY <1>1, LoadedStatus, Fresh
<1>3. row.bk = old.bk /\ row.status = IF full THEN "REFUNDED" ELSE "PARTIALLY_REFUNDED"
  BY <1>2 DEF Row, RefundedRow
<1>4. Commit(w, e, WriteRow(seen[w], t, row), booking, IF full THEN {b} ELSE {})
  BY DEF FinishRefund
<1>5. /\ Leaves(w) /\ db'.booking = booking
      /\ db'.txs = [db.txs EXCEPT ![t] = upd]
  BY <1>4, CommitLeaves DEF WriteRow
<1>6. db.booking \in [Booking -> BookingStatus]
  BY DEF TypeInv, TypeOK, Table
<1>7. /\ \A c \in Booking \ {b} : booking[c] = db.booking[c]
      /\ full => booking[b] = "CANCELLED"
      /\ ~full => booking = db.booking
  BY <1>2, <1>6 DEF SetBooking
<1>8. /\ upd.bk = e.ref
      /\ upd.status \in TxStatus
      /\ ~full => upd.status \in Covering \/ cur.status \notin Covering
  <2>1. cur.status \in TxStatus
    BY <1>2, RowIsRow
  <2> HIDE DEF cur, old, row, full
  <2>2. upd.status = Column(cur.status, old.status, row.status) /\ upd.bk = e.ref
    BY <1>2, <1>3, UpdateColumns DEF Column
  <2>3. row.status \in TxStatus /\ (~full => row.status \in Covering)
    BY <1>3 DEF TxStatus, Covering
  <2> QED
    BY <2>1, <2>2, <2>3 DEF Column
<1> HIDE DEF upd, booking, full
<1>9. upd # NoRow
  BY <1>8 DEF TxStatus, NoRow
<1>10. \A c \in Booking \ {upd.bk} : db'.booking[c] = db.booking[c]
  BY <1>2, <1>5, <1>7, <1>8
<1>11. \/ upd.status \in Covering
       \/ db'.booking[upd.bk] # "CONFIRMED"
       \/ db'.booking = db.booking /\ cur.status \notin Covering
  BY <1>2, <1>5, <1>7, <1>8
<1>12. Changes(w, t, upd)
  BY <1>1, <1>2, <1>5, <1>8, <1>9, <1>10, <1>11 DEF Changes
<1> QED
  BY <1>2, <1>5, <1>12 DEF Ends

\* Every outcome of a request.
LEMMA FinishEnds ==
    ASSUME TypeInv, RowInv, StatusKept, NoFailures, NEW w \in Worker, Finish(w)
    PROVE  InCommit(w) /\ Ends(w)
<1> DEFINE s == seen[w]  e == req[w].ev
<1>1. InCommit(w)
  BY FinishOutcomes
<1>2. PICK asked, t :
        /\ asked \in BOOLEAN /\ t \in Resolved(s, e, asked)
        /\ \/ Rollback(w)
           \/ /\ ~Unmatched(s, e, t, asked)
              /\ \E b \in ResolvedBooking(s, e, t) :
                   /\ ~Outdated(w, s, e, t, b)
                   /\ \/ FinishConfirm(w, s, e, t, b)
                      \/ FinishConfirmUnmatched(w, s, e, t, b, asked)
                      \/ FinishReplay(w, s, e, t, b)
                      \/ FinishDuplicate(w, s, e, t, b, asked)
                      \/ FinishAuthorized(w, s, e, t, b)
                      \/ FinishFailed(w, s, e, t)
                      \/ FinishRefund(w, s, e, t, b)
                      \/ FinishInvalidRefund(w, s, e, t)
  BY FinishOutcomes
<1>3. CASE Rollback(w)
  <2>1. Return(w) /\ Written(w, {}) /\ db' = db /\ refunding' = refunding
    BY <1>3 DEF Rollback, ledger
  <2>2. Leaves(w)
    BY <2>1, ReturnOver, WrittenGrows DEF Leaves
  <2> QED
    BY <1>1, <2>1, <2>2 DEF Ends
<1>4. CASE FinishInvalidRefund(w, s, e, t)
  <2>1. Commit(w, e, db.txs, db.booking, {})
    BY <1>4 DEF FinishInvalidRefund
  <2> QED
    BY <1>1, <2>1, NothingEnds
<1>5. ASSUME NEW b, FinishReplay(w, s, e, t, b) PROVE Ends(w)
  <2>1. Return(w) /\ Written(w, {}) /\ db' = db /\ refunding' = refunding
    BY <1>5 DEF FinishReplay, ledger
  <2> QED
    BY <2>1, ReturnOver, WrittenGrows DEF Ends, Leaves
<1>6. ~FinishFailed(w, s, e, t)
  BY <1>1 DEF FinishFailed, NoFailures
<1> QED
  BY <1>1, <1>2, <1>3, <1>4, <1>5, <1>6, ConfirmEnds, InsertEnds, AuthorizedEnds, RefundEnds

\* One row of a booking is written: the bookings that were backed still are.
LEMMA BackedAfter ==
    ASSUME TypeInv, ConfirmedBacked, NEW t \in TxId, NEW row, row # NoRow,
           db'.txs = [db.txs EXCEPT ![t] = row],
           db.txs[t] = NoRow \/ db.txs[t].bk = row.bk,
           \A c \in Booking \ {row.bk} : db'.booking[c] = db.booking[c],
           \/ row.status \in Covering
           \/ db'.booking[row.bk] # "CONFIRMED"
           \/ /\ db'.booking = db.booking
              /\ db.txs[t] # NoRow => db.txs[t].status \notin Covering
    PROVE  ConfirmedBacked'
<1>1. \A u \in TxId : db'.txs[u] = IF u = t THEN row ELSE db.txs[u]
  BY OneRowWritten
<1> SUFFICES ASSUME NEW b \in Booking, db'.booking[b] = "CONFIRMED"
             PROVE  \E u \in RowsOf(db', b) : db'.txs[u].status \in Covering
  BY DEF ConfirmedBacked, Covering, RowsOf
<1>2. CASE b = row.bk /\ row.status \in Covering
  BY <1>1, <1>2 DEF RowsOf
<1>3. CASE b # row.bk \/ row.status \notin Covering
  <2>1. db.booking[b] = "CONFIRMED"
    BY <1>3
  <2>2. PICK u \in RowsOf(db, b) : db.txs[u].status \in Covering
    BY <2>1 DEF ConfirmedBacked, Covering
  <2>3. u # t
    BY <1>3, <2>2 DEF RowsOf
  <2> QED
    BY <1>1, <2>2, <2>3 DEF RowsOf
<1> QED
  BY <1>2, <1>3

\* A request that is over.
LEMMA EndsSound ==
    ASSUME TypeInv, RowInv, SoundInv, NEW w \in Worker, InCommit(w), Ends(w)
    PROVE  SoundInv'
<1>1. \A v \in Worker : InCommit(v)' =>
          /\ InCommit(v) /\ v # w /\ req'[v] = req[v] /\ seen'[v] = seen[v]
          /\ req[v].ev.ref # req[w].ev.ref
          /\ v \in stale => v \in stale'
  BY OthersHeld DEF Ends, Leaves
<1>2. NoFailures'
  BY <1>1 DEF SoundInv, NoFailures
<1>3. ASSUME \A v \in Worker, u \in TxId :
                 InCommit(v)' /\ db.txs[u] # NoRow /\ db.txs[u].bk = req[v].ev.ref
                     => db'.txs[u] = db.txs[u]
      PROVE  StatusKept'
  <2> SUFFICES ASSUME NEW v \in Worker, NEW u \in TxId, InCommit(v)', seen'[v].txs[u] # NoRow,
                      seen'[v].txs[u].bk = req'[v].ev.ref
               PROVE  LET old == seen'[v].txs[u]  cur == db'.txs[u] IN
                      /\ old.status \in Covering /\ v \notin stale' => cur.status \in Covering
                      /\ old.status \notin Settled => cur.status = old.status
    BY DEF StatusKept
  <2>1. InCommit(v) /\ req'[v] = req[v] /\ seen'[v] = seen[v] /\ (v \in stale => v \in stale')
    BY <1>1
  <2>2. db.txs[u] # NoRow /\ db.txs[u].bk = req[v].ev.ref
    BY <2>1 DEF TypeInv, RowsKept, RowInv, SnapshotFresh
  <2>3. db'.txs[u] = db.txs[u]
    BY <1>3, <2>2
  <2> QED
    BY <2>1, <2>3 DEF SoundInv, StatusKept
<1>4. CASE db' = db
  BY <1>2, <1>3, <1>4 DEF SoundInv, Ends, Leaves, RefundsSettled, ConfirmedBacked, RowsOf
<1>5. ASSUME NEW t \in TxId, NEW row, Changes(w, t, row)
      PROVE  SoundInv'
  <2>1. \A u \in TxId : db'.txs[u] = IF u = t THEN row ELSE db.txs[u]
    BY <1>5, OneRowWritten DEF Changes
  <2>2. StatusKept'
    BY <1>1, <1>3, <1>5, <2>1 DEF Changes
  <2>3. RefundsSettled'
    BY <1>5, <2>1 DEF SoundInv, Ends, Leaves, Changes, RefundsSettled
  <2>4. ConfirmedBacked'
    BY <1>5, BackedAfter DEF SoundInv, Changes
  <2> QED
    BY <1>2, <2>2, <2>3, <2>4 DEF SoundInv
<1> QED
  BY <1>4, <1>5 DEF Ends

\* Other steps: a settled row may stop covering its booking, for those who know it.
LEMMA StatusFollows ==
    ASSUME TypeInv, RowInv, SoundInv,
           \A v \in Worker : InCommit(v)' =>
               /\ InCommit(v) /\ req'[v] = req[v] /\ seen'[v] = seen[v]
               /\ v \in stale => v \in stale',
           \A v \in Worker, u \in TxId :
               InCommit(v) /\ db.txs[u] # NoRow /\ db.txs[u].bk = req[v].ev.ref
                   => \/ db'.txs[u].status = db.txs[u].status
                      \/ /\ db.txs[u].status \in Settled
                         /\ db'.txs[u].status \in Covering \/ v \in stale'
    PROVE  NoFailures' /\ StatusKept'
<1>1. NoFailures'
  BY DEF SoundInv, NoFailures
<1>2. ASSUME NEW v \in Worker, NEW u \in TxId, InCommit(v)', seen'[v].txs[u] # NoRow,
             seen'[v].txs[u].bk = req'[v].ev.ref
      PROVE  LET old == seen'[v].txs[u]  cur == db'.txs[u] IN
             /\ old.status \in Covering /\ v \notin stale' => cur.status \in Covering
             /\ old.status \notin Settled => cur.status = old.status
  <2>1. InCommit(v) /\ req'[v] = req[v] /\ seen'[v] = seen[v] /\ (v \in stale => v \in stale')
    BY <1>2
  <2>2. db.txs[u] # NoRow /\ db.txs[u].bk = req[v].ev.ref
    BY <1>2, <2>1 DEF TypeInv, RowsKept, RowInv, SnapshotFresh
  <2>3. /\ seen[v].txs[u].status \in Covering /\ v \notin stale => db.txs[u].status \in Covering
        /\ seen[v].txs[u].status \notin Settled => db.txs[u].status = seen[v].txs[u].status
    BY <1>2, <2>1 DEF SoundInv, StatusKept
  <2>4. \/ db'.txs[u].status = db.txs[u].status
        \/ /\ db.txs[u].status \in Settled
           /\ db'.txs[u].status \in Covering \/ v \in stale'
    BY <2>1, <2>2
  <2> QED
    BY <2>1, <2>3, <2>4
<1> QED
  BY <1>1, <1>2 DEF StatusKept

\* Steps that leave the ledger alone and take no request.
LEMMA UnwrittenSound ==
    ASSUME TypeInv, RowInv, SoundInv, db' = db,
           \A t \in TxId : refunding'[t] # 0 => refunding[t] # 0 \/ db.txs[t].status \in Settled,
           \A v \in Worker : InCommit(v)' =>
               /\ InCommit(v) /\ req'[v] = req[v] /\ seen'[v] = seen[v]
               /\ v \in stale => v \in stale'
    PROVE  SoundInv'
<1>1. NoFailures' /\ StatusKept'
  BY StatusFollows
<1>2. RefundsSettled' /\ ConfirmedBacked'
  BY DEF SoundInv, RefundsSettled, ConfirmedBacked, RowsOf
<1> QED
  BY <1>1, <1>2 DEF SoundInv

\* A request is taken: it knows the rows as they are.
LEMMA BeginSound ==
    ASSUME "payment.failed" \notin Subscribed, TypeInv, SoundInv,
           NEW w \in Worker, NEW e \in Event, Begin(w, e)
    PROVE  SoundInv'
<1>1. /\ db' = db /\ refunding' = refunding /\ stale' = stale
      /\ req' = [req EXCEPT ![w] = [pc |-> "commit", ev |-> e]]
      /\ seen' = [seen EXCEPT ![w] = db]
  BY DEF Begin, ledger
<1>2. req \in [Worker -> Request] /\ seen \in [Worker -> Table]
  BY DEF TypeInv, TypeOK
<1>3. \A v \in Worker : /\ v # w => req'[v] = req[v] /\ seen'[v] = seen[v]
                        /\ v = w => req'[v].ev = e /\ seen'[v] = db
  BY <1>1, <1>2
<1>4. e.kind # "payment.failed"
  BY DEF Begin, Emitted
<1>5. NoFailures'
  BY <1>3, <1>4 DEF SoundInv, NoFailures, InCommit
<1>6. StatusKept'
  BY <1>1, <1>3 DEF SoundInv, StatusKept, InCommit
<1>7. RefundsSettled' /\ ConfirmedBacked'
  BY <1>1 DEF SoundInv, RefundsSettled, ConfirmedBacked, RowsOf
<1> QED
  BY <1>5, <1>6, <1>7 DEF SoundInv

\* Storing an order leaves the status of the row it is stored over.
LEMMA PersistSound ==
    ASSUME TypeInv, RowInv, SoundInv, NEW o \in Order, PersistOrder(o)
    PROVE  SoundInv'
<1>1. PICK t \in TxId, row \in Row :
        /\ db' = [txs |-> [db.txs EXCEPT ![t] = row], booking |-> db.booking]
        /\ PlacesNew(o, t, row) \/ PlacesOver(o, t, row)
        /\ row.bk = owner[o]
  BY PlacedRow
<1>2. /\ UNCHANGED <<req, seen, stale, refunding>>
      /\ db'.txs = [db.txs EXCEPT ![t] = row] /\ db'.booking = db.booking /\ row # NoRow
  BY <1>1, RowIsRow DEF PersistOrder
<1>3. \A u \in TxId : db'.txs[u] = IF u = t THEN row ELSE db.txs[u]
  BY <1>2, OneRowWritten
<1>4. db.txs[t] = NoRow \/ (db.txs[t].bk = row.bk /\ db.txs[t].status = row.status)
  BY <1>1 DEF PlacesNew, PlacesOver, FreeRow, Row
<1>5. NoFailures' /\ StatusKept'
  BY <1>2, <1>3, <1>4, StatusFollows DEF InCommit
<1>6. RefundsSettled'
  BY <1>2, <1>3, <1>4 DEF SoundInv, RefundsSettled, TypeInv, RefundFits
<1>7. ConfirmedBacked'
  BY <1>2, <1>4, BackedAfter DEF SoundInv
<1> QED
  BY <1>5, <1>6, <1>7 DEF SoundInv

\* The refund endpoint: a full refund takes the booking with it, and moves its
\* version for the request that holds it.
LEMMA RefundCommitSound ==
    ASSUME TypeInv, RowInv, SoundInv, NEW t \in TxId, RefundCommit(t)
    PROVE  SoundInv'
<1> DEFINE cur == db.txs[t]
<1>1. PICK row : \E full \in BOOLEAN : Repays(t, row, full)
  BY RefundRepays DEF SoundInv
<1>2. PICK full \in BOOLEAN : Repays(t, row, full)
  BY <1>1
<1>3. /\ cur \in Row /\ cur.status \in Settled /\ row # NoRow /\ row.bk = cur.bk
      /\ row.status = IF full THEN "REFUNDED" ELSE "PARTIALLY_REFUNDED"
      /\ db'.txs = [db.txs EXCEPT ![t] = row]
      /\ db'.booking = IF full THEN [db.booking EXCEPT ![row.bk] = "CANCELLED"] ELSE db.booking
      /\ refunding' = [refunding EXCEPT ![t] = 0] /\ UNCHANGED <<req, seen>>
  BY <1>2 DEF Repays
<1>4. \A u \in TxId : db'.txs[u] = IF u = t THEN row ELSE db.txs[u]
  BY <1>3, OneRowWritten
<1>5. row.bk \in Booking /\ db.booking \in [Booking -> BookingStatus]
  BY <1>3 DEF Row, TypeInv, TypeOK, Table
<1>6. \A v \in Worker : v \in stale => v \in stale'
  BY DEF RefundCommit, Stale
<1>7. full => \A v \in Worker : InCommit(v) /\ req[v].ev.ref = cur.bk => v \in stale'
  <2>1. row = [RefundedRow(cur, cur.refunded + refunding[t] >= Total)
                  EXCEPT !.refunded = cur.refunded + refunding[t]]
    <3> DEFINE new == [RefundedRow(cur, cur.refunded + refunding[t] >= Total)
                          EXCEPT !.refunded = cur.refunded + refunding[t]]
    <3>1. db'.txs = [db.txs EXCEPT ![t] = new]
      BY DEF RefundCommit
    <3> HIDE DEF new
    <3>2. db'.txs[t] = new
      BY <3>1, OneRowWritten
    <3>3. db'.txs[t] = row
      BY <1>4
    <3> QED
      BY <3>2, <3>3 DEF new
  <2>2. full => cur.refunded + refunding[t] >= Total
    BY <1>3, <2>1 DEF RefundedRow, Row
  <2>3. full => stale' = Stale(Worker, {cur.bk})
    BY <2>2 DEF RefundCommit
  <2> QED
    BY <1>3, <1>5, <2>3, IdAssumption DEF Stale, Loaded
<1>8. NoFailures' /\ StatusKept'
  <2>1. \A v \in Worker, u \in TxId :
            InCommit(v) /\ db.txs[u] # NoRow /\ db.txs[u].bk = req[v].ev.ref
                => \/ db'.txs[u].status = db.txs[u].status
                   \/ /\ db.txs[u].status \in Settled
                      /\ db'.txs[u].status \in Covering \/ v \in stale'
    BY <1>3, <1>4, <1>7 DEF Covering
  <2> QED
    BY <1>3, <1>6, <2>1, StatusFollows DEF InCommit
<1>9. RefundsSettled'
  BY <1>3, <1>4 DEF SoundInv, RefundsSettled, TypeInv, TypeOK
<1>10. ConfirmedBacked'
  <2>1. \A c \in Booking \ {row.bk} : db'.booking[c] = db.booking[c]
    BY <1>3, <1>5
  <2>2. full => db'.booking[row.bk] # "CONFIRMED"
    BY <1>3, <1>5
  <2>3. ~full => row.status \in Covering
    BY <1>3 DEF Covering
  <2> QED
    BY <1>3, <2>1, <2>2, <2>3, BackedAfter DEF SoundInv
<1> QED
  BY <1>8, <1>9, <1>10 DEF SoundInv

\* Every step.
LEMMA NextSound ==
    ASSUME "payment.failed" \notin Subscribed, TypeInv, RowInv, SoundInv, [Next]_vars
    PROVE  SoundInv'
<1>1. CASE \E e \in Event : Deliver(e)
  BY <1>1, BeginSound DEF Deliver
<1>2. CASE \E w \in Worker : Finish(w)
  BY <1>2, FinishEnds, EndsSound DEF SoundInv
<1>3. CASE \E o \in Order : PersistOrder(o)
  BY <1>3, PersistSound
<1>4. CASE \E t \in TxId : RefundCommit(t)
  BY <1>4, RefundCommitSound
<1>5. CASE \E w \in Worker : Dispatch(w)
  <2>1. PICK w \in Worker : Dispatch(w)
    BY <1>5
  <2>2. \A v \in Worker : InCommit(v)' =>
            v # w /\ InCommit(v) /\ req'[v] = req[v] /\ seen'[v] = seen[v]
    BY <2>1 DEF Dispatch, Return, Idle, InCommit, TypeInv, TypeOK
  <2>3. \A v \in Worker : v # w /\ v \in stale => v \in stale'
    BY <2>1 DEF Dispatch, Written, Stale
  <2> QED
    BY <2>1, <2>2, <2>3, UnwrittenSound DEF Dispatch, ledger
<1>6. CASE Crash
  <2>1. \A v \in Worker : ~InCommit(v)'
    BY <1>6 DEF Crash, InCommit, Idle
  <2> QED
    BY <1>6, <2>1, UnwrittenSound DEF Crash, ledger
<1>7. CASE \E t \in TxId, amt \in 1 .. Total : RefundCall(t, amt)
  <2>1. PICK t \in TxId, amt \in 1 .. Total : RefundCall(t, amt)
    BY <1>7
  <2>2. /\ db' = db /\ UNCHANGED <<req, seen, stale>> /\ db.txs[t].status \in Settled
        /\ \A u \in TxId \ {t} : refunding'[u] = refunding[u]
    BY <2>1 DEF RefundCall, Refundable, Settled, ledger, TypeInv, TypeOK
  <2> QED
    BY <2>2, UnwrittenSound DEF InCommit
<1>8. CASE \E t \in TxId : RefundLost(t)
  <2>1. /\ db' = db /\ UNCHANGED <<req, seen, stale>>
        /\ \A t \in TxId : refunding'[t] \in {0, refunding[t]}
    BY <1>8 DEF RefundLost, ledger, TypeInv, TypeOK
  <2> QED
    BY <2>1, UnwrittenSound DEF InCommit
<1>9. CASE db' = db /\ UNCHANGED <<req, seen, stale, refunding>>
  BY <1>9, UnwrittenSound DEF InCommit
<1> QED
  BY <1>1, <1>2, <1>3, <1>4, <1>5, <1>6, <1>7, <1>8, <1>9
  DEF Next, PayNext, RefundNext, AckDuplicate, CreateOrder, ChooseRow, Fulfil, Attempt,
      Capture, DashboardRefund, ledger, server, vars

\* Initially no booking is confirmed.
LEMMA InitSound == Init => SoundInv
<1>1. Idle.pc # "commit"
  BY DEF Idle
<1> QED
  BY <1>1 DEF Init, SoundInv, RefundsSettled, NoFailures, StatusKept, ConfirmedBacked, Blank,
              InCommit

\* No order of refund requests of the API, refund events, second payments, late
\* orders, repeated and late webhooks and crashes leaves a booking CONFIRMED
\* without a payment that covers at least part of it: a full refund cancels it,
\* whoever reports the refund, and the version of the booking keeps a session that
\* did not see it from confirming again (process_refund, handle_verified_payment).
THEOREM RefundsUnconfirmTheorem ==
    ASSUME UnkeyedKinds = {}, "payment.failed" \notin Subscribed
    PROVE  Spec => []ConfirmedBacked
<1>1. TypeInv /\ RowInv /\ SoundInv /\ [Next]_vars => SoundInv'
  BY NextSound
<1>2. SoundInv => ConfirmedBacked
  BY DEF SoundInv
<1> QED
  BY <1>1, <1>2, InitSound, TypeInvariant, RowInvariant, PTL DEF Spec

-----------------------------------------------------------------------------
(* A capture the gateway got its 2xx for is on the ledger.                   *)

\* The row of a captured payment: no event of another order finds it any more.
HoldsMoney(row, p) ==
    /\ row.gpid = p /\ row.status \notin Open
    /\ \A id \in StoredIds(row) : OrderBehind(id) = gw[p].ord
Held(p) == Paid(p) /\ \E t \in Rows : HoldsMoney(db.txs[t], p)

CaptureKind == {"payment.captured", "order.paid"}
\* Acknowledged, recorded, or committed and about to be acknowledged.
Taken(e) == \/ e \in acked \cup recorded
            \/ \E w \in Worker : req[w].pc = "dispatch" /\ req[w].ev = e
LedgerInv == \A e \in Event : e.kind \in CaptureKind /\ Taken(e) => Held(e.pay)

\* An event that shares an id with such a row is of its payment's order.
LEMMA HeldShares ==
    ASSUME TypeInv, RefundInv, NEW w \in Worker, InCommit(w), NEW t \in TxId, HasRow(w, t),
           NEW p, Paid(p), HoldsMoney(db.txs[t], p)
    PROVE  LET e == req[w].ev  old == seen[w].txs[t]  cur == db.txs[t] IN
           /\ old.status \notin Open /\ cur.gpid = old.gpid /\ cur.resp = old.resp
           /\ old.status \in Settled => cur.status \in Settled
           /\ \A id \in GatewayIds(e) : OrderBehind(id) = gw[p].ord
           /\ e.kind \in SuccessKind => e.pay = p
<1> DEFINE e == req[w].ev  old == seen[w].txs[t]  cur == db.txs[t]
<1>1. Follows(old, cur) /\ cur.status \notin Open
  BY DEF HasRow, HoldsMoney
<1>2. /\ old.status \notin Open /\ cur.gpid = old.gpid /\ cur.resp = old.resp
      /\ old.status \in Settled => cur.status \in Settled
  BY <1>1 DEF Follows, Open, Settled
<1>3. PICK id \in GatewayIds(e) : id \in StoredIds(cur)
  BY <1>2 DEF HasRow, Shares, StoredIds
<1>4. OrderBehind(id) = gw[p].ord
  BY <1>3 DEF HoldsMoney
<1>5. /\ e.pay \in Payment /\ gw[e.pay].ord = gw[p].ord
      /\ \A i \in GatewayIds(e) : OrderBehind(i) = gw[p].ord
  BY <1>3, <1>4, EventOrder
<1>6. e.kind \in SuccessKind => e.pay = p
  BY <1>5 DEF RefundInv, EventHeld, CaptureOnce, Paid
<1> QED
  BY <1>2, <1>5, <1>6

\* Whatever a request writes on that row, it stays the row of its payment.
LEMMA HandledHolds ==
    ASSUME TypeInv, RefundInv, NEW w \in Worker, InCommit(w), NEW t \in TxId, NEW row,
           HandledRow(w, t, row), NEW p, Paid(p), t \in Rows, HoldsMoney(db.txs[t], p)
    PROVE  HoldsMoney(row, p)
<1> DEFINE e == req[w].ev  old == seen[w].txs[t]  cur == db.txs[t]
<1>1. cur.status \notin Open /\ cur.gpid = p /\ cur # NoRow
  BY DEF HoldsMoney, Rows
<1>2. HasRow(w, t) =>
        /\ old.status \notin Open /\ cur.gpid = old.gpid /\ cur.resp = old.resp
        /\ old.status \in Settled => cur.status \in Settled
        /\ \A id \in GatewayIds(e) : OrderBehind(id) = gw[p].ord
        /\ e.kind \in SuccessKind => e.pay = p
  BY HeldShares
<1>3. \A id \in StoredIds(cur) : OrderBehind(id) = gw[p].ord
  BY DEF HoldsMoney
<1>4. CASE Lands(w, t, row)
  <2>1. /\ HasRow(w, t) /\ e.kind \in SuccessKind /\ row.gpid = e.pay
        /\ row.resp = MergedResponse(old.resp, e)
        /\ row.status = IF old.status = "SUCCESSFUL" THEN cur.status ELSE "SUCCESSFUL"
    BY <1>4 DEF Lands
  <2>2. StoredIds(row) \subseteq GatewayIds(e) \cup StoredIds(cur)
    BY <1>2, <2>1 DEF StoredIds, MergedResponse, GatewayIds
  <2>3. row.status \notin Open
    BY <1>1, <2>1 DEF Open
  <2> QED
    BY <1>2, <1>3, <2>1, <2>2, <2>3 DEF HoldsMoney
<1>5. ~Inserts(w, t, row)
  BY <1>1 DEF Inserts
<1>6. ~Authorizes(w, t, row)
  BY <1>1 DEF Authorizes, Open
<1>7. CASE Fails(w, t, row)
  <2>1. /\ HasRow(w, t) /\ row.gpid = cur.gpid /\ row.status \notin Open
        /\ StoredIds(row) \subseteq GatewayIds(e) \cup StoredIds(cur)
    BY <1>7 DEF Fails, Open, StoredIds, RawResponse
  <2> QED
    BY <1>1, <1>2, <1>3, <2>1 DEF HoldsMoney
<1>8. ASSUME NEW full \in BOOLEAN, Refunds(w, t, row, full)
      PROVE  HoldsMoney(row, p)
  <2>1. /\ row.gpid = cur.gpid /\ StoredIds(row) = StoredIds(cur)
        /\ row.status \notin Open
    BY <1>1, <1>8 DEF Refunds, Column, Open, StoredIds
  <2> QED
    BY <1>1, <1>3, <2>1 DEF HoldsMoney
<1> QED
  BY <1>4, <1>5, <1>6, <1>7, <1>8 DEF HandledRow

\* Such a row stays one, written or not, when the gateway rests.
LEMMA WrittenHeld ==
    ASSUME TypeInv, gw' = gw, NEW t \in TxId, NEW row, row # NoRow,
           db'.txs = [db.txs EXCEPT ![t] = row], NEW p, Held(p),
           t \in Rows /\ HoldsMoney(db.txs[t], p) => HoldsMoney(row, p)
    PROVE  Held(p)'
<1>1. \A u \in TxId : db'.txs[u] = IF u = t THEN row ELSE db.txs[u]
  BY OneRowWritten
<1>2. PICK u \in Rows : HoldsMoney(db.txs[u], p)
  BY DEF Held
<1>3. u \in Rows' /\ HoldsMoney(db'.txs[u], p)
  BY <1>1, <1>2 DEF Rows
<1>4. HoldsMoney(db.txs[u], p)'
  BY <1>3 DEF HoldsMoney, OrderBehind
<1> QED
  BY <1>3, <1>4 DEF Held, Paid

\* And when no row is written, whatever happens at the gateway.
LEMMA UnwrittenHeld ==
    ASSUME TypeInv, IdsOwned, GatewayGrows, ReceiptsKept, CaptureOnce, db' = db, NEW p, Held(p)
    PROVE  Held(p)'
<1>1. PICK t \in Rows : HoldsMoney(db.txs[t], p)
  BY DEF Held
<1>2. \A id \in StoredIds(db.txs[t]) : OrderBehind(id)' = OrderBehind(id)
  BY IdAssumption DEF IdsOwned, RowOwned, BelongsTo, Receipt, ReceiptsKept, OrderBehind
<1>3. /\ Paid(p)' /\ gw'[p].ord = gw[p].ord
  BY DEF Held, Paid, GatewayGrows, ReceiptsKept, CaptureOnce
<1>4. HoldsMoney(db.txs[t], p)'
  BY <1>1, <1>2, <1>3 DEF HoldsMoney, StoredIds
<1> QED
  BY <1>1, <1>3, <1>4 DEF Held, Rows

\* Money that came in is held by the row it came in on.
LEMMA LandedHeld ==
    ASSUME TypeInv, RefundInv, BackedInv, RefundInv', BackedInv', NEW w \in Worker, InCommit(w),
           Landed(w), NEW p, p = req[w].ev.pay
    PROVE  Held(p)'
<1> DEFINE e == req[w].ev
<1>1. PICK t \in TxId : \E row : HandledRow(w, t, row) /\ (Lands(w, t, row) \/ Inserts(w, t, row))
  BY DEF Landed
<1>2. PICK row : HandledRow(w, t, row) /\ (Lands(w, t, row) \/ Inserts(w, t, row))
  BY <1>1
<1>3. /\ db'.txs = [db.txs EXCEPT ![t] = row] /\ row # NoRow /\ gw' = gw
      /\ row.gpid = p
  BY <1>2 DEF HandledRow, Writes, Lands, Inserts
<1>4. row.status \in Settled
  BY <1>2 DEF Lands, Inserts, HasRow, Follows, Settled
<1>5. t \in Rows' /\ db'.txs[t] = row
  BY <1>3, OneRowWritten DEF Rows
<1>6. HasMoney(db.txs[t])'
  BY <1>4, <1>5 DEF HasMoney
<1>7. Paid(p)'
  <2>1. Paid(db.txs[t].gpid)'
    BY <1>5, <1>6 DEF RefundInv, RowsPaid
  <2> QED
    BY <1>3, <1>5, <2>1 DEF Paid
<1>8. \A id \in StoredIds(db'.txs[t]) : OrderBehind(id)' = gw'[db'.txs[t].gpid].ord
  BY <1>5, <1>6 DEF BackedInv, OneOrder
<1>9. /\ db'.txs[t].gpid = p /\ db'.txs[t].status \notin Open
      /\ \A id \in StoredIds(db'.txs[t]) : OrderBehind(id)' = gw'[p].ord
  BY <1>3, <1>4, <1>5, <1>8 DEF Settled, Open
<1> QED
  BY <1>5, <1>7, <1>9 DEF Held, HoldsMoney

\* Money taken for a repetition is on the row that settled the booking.
LEMMA ReplayHeld ==
    ASSUME TypeInv, RowInv, RefundInv, BackedInv, NEW w \in Worker, InCommit(w),
           NEW asked \in BOOLEAN, NEW t \in Resolved(seen[w], req[w].ev, asked),
           NEW b \in ResolvedBooking(seen[w], req[w].ev, t),
           FinishReplay(w, seen[w], req[w].ev, t, b)
    PROVE  Held(req[w].ev.pay)
<1> DEFINE e == req[w].ev  s == seen[w]
<1>1. PICK u \in SettlingRow(s, b, t) : SamePayment(s, e, u) /\ e.kind \in SuccessKind
  BY DEF FinishReplay, Repeats
<1>2. u # 0 /\ Shares(s.txs[u], e) /\ b = e.ref
  BY <1>1, Fresh DEF SamePayment, Shares
<1>3. /\ u \in TxId /\ s.txs[u] # NoRow /\ s.txs[u].bk = e.ref
      /\ s.txs[u].status = "SUCCESSFUL"
  <2>1. CASE u = t
    <3>1. t # 0
      BY <1>2, <2>1
    <3>2. /\ t \in TxId /\ s.txs[t] # NoRow /\ s.txs[t].bk = e.ref
      BY <3>1, Handling, Fresh, RowIsRow
    <3>3. s.txs[t].status = "SUCCESSFUL"
      BY <1>1, <1>2, <2>1, <3>1, Lookup DEF SettlingRow, Settlements, RowsOf
    <3> QED
      BY <2>1, <3>2, <3>3
  <2>2. CASE u # t
    <3>1. u \in Oldest(Settlements(s, b))
      BY <1>1, <2>2 DEF SettlingRow
    <3>2. u \in Settlements(s, b)
      BY <1>2, <3>1 DEF Oldest
    <3> QED
      BY <1>2, <3>2 DEF Settlements, RowsOf
  <2> QED
    BY <2>1, <2>2
<1>4. Follows(s.txs[u], db.txs[u]) /\ u \in Rows
  BY <1>3 DEF RefundInv, SnapshotFollowed, TypeInv, RowsKept, Rows
<1>5. /\ db.txs[u].status \in Settled /\ HasMoney(db.txs[u])
      /\ StoredIds(db.txs[u]) = StoredIds(s.txs[u])
  BY <1>3, <1>4 DEF Follows, Settled, HasMoney, StoredIds
<1>6. PICK id \in GatewayIds(e) : id \in StoredIds(db.txs[u])
  BY <1>2, <1>5 DEF Shares
<1>7. /\ Paid(db.txs[u].gpid)
      /\ \A i \in StoredIds(db.txs[u]) : OrderBehind(i) = gw[db.txs[u].gpid].ord
  BY <1>4, <1>5 DEF RefundInv, RowsPaid, BackedInv, OneOrder
<1>8. e.pay \in Payment /\ gw[e.pay].ord = gw[db.txs[u].gpid].ord
  BY <1>6, <1>7, EventOrder
<1>9. e.pay = db.txs[u].gpid
  BY <1>1, <1>7, <1>8 DEF RefundInv, EventHeld, CaptureOnce, Paid
<1> QED
  BY <1>4, <1>5, <1>7, <1>9 DEF Held, HoldsMoney, Settled, Open

\* A request takes no capture but its own, and only with the money held.
LEMMA FinishTakes ==
    ASSUME TypeInv, RowInv, IdsOwned, RefundInv, BackedInv, RefundInv', BackedInv',
           NEW w \in Worker, Finish(w),
           NEW e2 \in Event, e2.kind \in CaptureKind, Taken(e2)'
    PROVE  Taken(e2) \/ Held(e2.pay)'
<1> DEFINE s == seen[w]  e == req[w].ev
<1>1. InCommit(w)
  BY FinishOutcomes
<1>2. PICK asked, t :
        /\ asked \in BOOLEAN /\ t \in Resolved(s, e, asked)
        /\ \/ Rollback(w)
           \/ /\ ~Unmatched(s, e, t, asked)
              /\ \E b \in ResolvedBooking(s, e, t) :
                   \/ FinishConfirm(w, s, e, t, b)
                   \/ FinishConfirmUnmatched(w, s, e, t, b, asked)
                   \/ FinishReplay(w, s, e, t, b)
                   \/ FinishDuplicate(w, s, e, t, b, asked)
                   \/ FinishAuthorized(w, s, e, t, b)
                   \/ FinishFailed(w, s, e, t)
                   \/ FinishRefund(w, s, e, t, b)
                   \/ FinishInvalidRefund(w, s, e, t)
  BY FinishOutcomes
<1>3. CASE Rollback(w)
  BY <1>3 DEF Rollback, Return, Idle, Taken, ledger, TypeInv, TypeOK
<1>4. ASSUME NEW b \in ResolvedBooking(s, e, t),
             FinishConfirm(w, s, e, t, b) \/ FinishConfirmUnmatched(w, s, e, t, b, asked)
      PROVE  Taken(e2) \/ e2 = e
  <2>1. \E n : /\ req' = [req EXCEPT ![w] = [pc |-> "dispatch", ev |-> e, tx |-> n]]
               /\ recorded' \subseteq recorded \cup {e} /\ acked' = acked
    BY <1>4 DEF FinishConfirm, FinishConfirmUnmatched, Confirmed, Record
  <2> QED
    BY <2>1 DEF Taken, TypeInv, TypeOK
<1>5. ASSUME NEW b \in ResolvedBooking(s, e, t),
             FinishReplay(w, s, e, t, b) \/ FinishDuplicate(w, s, e, t, b, asked)
      PROVE  Taken(e2) \/ e2 = e
  <2>1. /\ Return(w)
        /\ recorded' \subseteq recorded \cup {e} /\ acked' \subseteq acked \cup {e}
    BY <1>5 DEF FinishReplay, FinishDuplicate, Record, Ack, ledger
  <2> QED
    BY <2>1 DEF Taken, Return, Idle, TypeInv, TypeOK
<1>6. ASSUME NEW b \in ResolvedBooking(s, e, t),
             \/ FinishAuthorized(w, s, e, t, b) \/ FinishFailed(w, s, e, t)
             \/ FinishRefund(w, s, e, t, b) \/ FinishInvalidRefund(w, s, e, t)
      PROVE  Taken(e2)
  <2>1. /\ Return(w) /\ e.kind \notin CaptureKind
        /\ recorded' \subseteq recorded \cup {e} /\ acked' \subseteq acked \cup {e}
    BY <1>6 DEF FinishAuthorized, FinishFailed, FinishRefund, FinishInvalidRefund, Commit,
                Record, Ack, CaptureKind
  <2> QED
    BY <2>1 DEF Taken, Return, Idle, TypeInv, TypeOK
<1>7. ASSUME NEW b \in ResolvedBooking(s, e, t), FinishReplay(w, s, e, t, b)
      PROVE  e2 = e => Held(e2.pay)'
  <2>1. Held(e.pay)
    BY <1>1, <1>2, <1>7, ReplayHeld
  <2>2. db' = db /\ GatewayGrows /\ ReceiptsKept
    BY <1>7, BoundAssumption
    DEF FinishReplay, ledger, gateway, GatewayGrows, ReceiptsKept, TypeInv, TypeOK, GatewayPayment
  <2> QED
    BY <2>1, <2>2, UnwrittenHeld DEF RefundInv
<1>8. ASSUME NEW b \in ResolvedBooking(s, e, t),
             \/ FinishConfirm(w, s, e, t, b) \/ FinishConfirmUnmatched(w, s, e, t, b, asked)
             \/ FinishDuplicate(w, s, e, t, b, asked)
      PROVE  e2 = e => Held(e2.pay)'
  <2>1. Landed(w)
    BY <1>1, <1>2, <1>8, ConfirmLands, InsertOutcome DEF RefundInv
  <2> QED
    BY <1>1, <2>1, LandedHeld
<1> QED
  BY <1>2, <1>3, <1>4, <1>5, <1>6, <1>7, <1>8

\* No step takes a captured payment from its row.
LEMMA HeldKept ==
    ASSUME TypeInv, RowInv, IdsOwned, RefundInv, [Next]_vars, late' = {}, NEW p, Held(p)
    PROVE  Held(p)'
<1>1. GatewayGrows /\ ReceiptsKept /\ CaptureOnce /\ Paid(p)
  BY NextGateway DEF RefundInv, Held
<1>2. CASE db' = db
  BY <1>1, <1>2, UnwrittenHeld
<1>3. CASE \E w \in Worker : Finish(w)
  <2>1. PICK w \in Worker : InCommit(w) /\ Outcome(w)
    BY <1>3, FinishOutcome DEF RefundInv
  <2>2. ASSUME NEW t \in TxId, NEW row, HandledRow(w, t, row)
        PROVE  Held(p)'
    <3>1. t \in Rows /\ HoldsMoney(db.txs[t], p) => HoldsMoney(row, p)
      BY <1>1, <2>1, <2>2, HandledHolds
    <3>2. db'.txs = [db.txs EXCEPT ![t] = row] /\ row # NoRow /\ gw' = gw
      BY <2>2 DEF HandledRow, Writes
    <3> QED
      BY <3>1, <3>2, WrittenHeld
  <2> QED
    BY <1>2, <2>1, <2>2 DEF Outcome
<1>4. CASE \E o \in Order : PersistOrder(o)
  <2>1. PICK t \in TxId : \E row : Waits(t, row)
    BY <1>4, PersistWaits DEF RefundInv
  <2>2. PICK row : Waits(t, row)
    BY <2>1
  <2>3. ~(t \in Rows /\ HoldsMoney(db.txs[t], p))
    BY <2>2 DEF Waits, Rows, HoldsMoney, Open
  <2>4. db'.txs = [db.txs EXCEPT ![t] = row] /\ row # NoRow /\ gw' = gw
    BY <2>2 DEF Waits, TypeInv, TypeOK, Table
  <2> QED
    BY <2>3, <2>4, WrittenHeld
<1>5. CASE \E t \in TxId : RefundCommit(t)
  <2>1. PICK t \in TxId : \E row : \E full \in BOOLEAN : Repays(t, row, full)
    BY <1>5, RefundRepays DEF RefundInv
  <2>2. PICK row : \E full \in BOOLEAN : Repays(t, row, full)
    BY <2>1
  <2>3. HoldsMoney(db.txs[t], p) => HoldsMoney(row, p)
    BY <2>2 DEF Repays, HoldsMoney, StoredIds, Open
  <2>4. db'.txs = [db.txs EXCEPT ![t] = row] /\ row # NoRow /\ gw' = gw
    BY <2>2 DEF Repays
  <2> QED
    BY <2>3, <2>4, WrittenHeld
<1> QED
  BY <1>2, <1>3, <1>4, <1>5
  DEF Next, PayNext, RefundNext, RefundCall, RefundLost, Deliver, Begin, Dispatch,
      AckDuplicate, CreateOrder, ChooseRow, Fulfil, Attempt, Capture, DashboardRefund, Crash,
      ledger, server, vars

\* Every step.
LEMMA NextLedger ==
    ASSUME TypeInv, RowInv, IdsOwned, RefundInv, BackedInv, RefundInv', BackedInv', LedgerInv,
           [Next]_vars, late' = {}
    PROVE  LedgerInv'
<1> SUFFICES ASSUME NEW e \in Event, e.kind \in CaptureKind, Taken(e)'
             PROVE  Held(e.pay)'
  BY DEF LedgerInv
<1>1. Taken(e) => Held(e.pay)'
  BY HeldKept DEF LedgerInv
<1>2. CASE \E w \in Worker : Finish(w)
  BY <1>1, <1>2, FinishTakes
<1>3. CASE \E w \in Worker : Dispatch(w)
  <2>1. Taken(e)
    BY <1>3 DEF Dispatch, Return, Idle, Ack, Taken, ledger, TypeInv, TypeOK
  <2> QED
    BY <1>1, <2>1
<1>4. CASE \E f \in Event : Deliver(f)
  <2>1. PICK f \in Event, w \in Worker : Begin(w, f)
    BY <1>4 DEF Deliver
  <2>3. /\ UNCHANGED <<acked, recorded>>
        /\ req' = [req EXCEPT ![w] = [pc |-> "commit", ev |-> f]]
    BY <2>1 DEF Begin, ledger
  <2>4. req \in [Worker -> Request]
    BY DEF TypeInv, TypeOK
  <2>2. Taken(e)
    BY <2>3, <2>4 DEF Taken
  <2> QED
    BY <1>1, <2>2
<1>5. CASE \E f \in Event : AckDuplicate(f)
  <2>1. Taken(e)
    BY <1>5 DEF AckDuplicate, Taken, ledger
  <2> QED
    BY <1>1, <2>1
<1>6. CASE Crash
  <2>1. Taken(e)
    BY <1>6 DEF Crash, Idle, Taken, ledger
  <2> QED
    BY <1>1, <2>1
<1>7. CASE UNCHANGED <<recorded, acked, req>>
  BY <1>1, <1>7 DEF Taken
<1> QED
  BY <1>2, <1>3, <1>4, <1>5, <1>6, <1>7
  DEF Next, PayNext, RefundNext, RefundCall, RefundCommit, RefundLost, CreateOrder, ChooseRow,
      PersistOrder, Fulfil, Attempt, Capture, DashboardRefund, ledger, server, vars

\* Initially no event was taken.
LEMMA InitLedger == Init => LedgerInv
BY DEF Init, LedgerInv, Taken, Idle

\* Until an order is stored late: whatever events, refunds and crashes come
\* between, a capture the gateway got its 2xx for stays on the ledger under its own
\* payment id: a second payment is not taken for a repetition of the first, and no
\* later event overwrites its id (handle_verified_payment,
\* confirmed_booking_payment_result).
THEOREM CaptureOnLedgerTheorem ==
    ASSUME UnkeyedKinds = {}, VerifyAt \subseteq {"captured"}, VerifyAlone
    PROVE  Spec => [](OnTime => CaptureOnLedger)
<1>1. TypeInv /\ LedgerInv => CaptureOnLedger
  <2> SUFFICES ASSUME TypeInv, LedgerInv, NEW e \in acked, e.kind \in CaptureKind
               PROVE  \E t \in Rows : db.txs[t].gpid = e.pay
    BY DEF CaptureOnLedger, CaptureKind
  <2>1. Held(e.pay)
    BY DEF TypeInv, TypeOK, LedgerInv, Taken
  <2> QED
    BY <2>1 DEF Held, HoldsMoney
<1>2. TypeInv /\ TypeInv' /\ RowInv /\ IdsOwned /\ RefundInv /\ BackedInv /\ [Next]_vars
        /\ OnTime' => BackedInv'
  BY NextBacked DEF OnTime
<1>3. TypeInv /\ RowInv /\ IdsOwned /\ RefundInv /\ BackedInv /\ RefundInv' /\ BackedInv'
        /\ LedgerInv /\ [Next]_vars /\ OnTime' => LedgerInv'
  BY NextLedger DEF OnTime
<1> QED
  BY <1>1, <1>2, <1>3, InitBacked, InitLedger, InitOwned, NextOwned, OnTimeBefore,
     TypeInvariant, RefundInvariant, PTL DEF Spec
=============================================================================
