------------------------------ MODULE Bookings ------------------------------
(***************************************************************************)
(* One booking of the web shop and everybody who writes its status: the    *)
(* customer, the desk, the recycle bin, the assistant's tool and the       *)
(* payment core.  Each reads the row, decides, and commits an update that  *)
(* fails when the row's version moved on in between.  The payment that     *)
(* pays for it is a row of its own, without a version.                     *)
(***************************************************************************)
EXTENDS Naturals

CONSTANTS
    Writer,     \* requests
    DeskTarget, \* statuses an administrator sets
    MaxVersion  \* bound: commits of the booking's row


VARIABLES
    row,        \* bookings: its row
    paying,     \* payment_transactions: the status of its row that is no duplicate
    extra,      \* ... and whether a PAY-DUP row of it waits for its refund
    writer,
    unguarded   \* history: a paid booking left CONFIRMED past the desk's check

bookingVars == <<row, paying, extra, writer, unguarded>>

Status == {"DRAFT", "PENDING", "CONFIRMED", "ASSIGNED", "IN_PROGRESS", "COMPLETED",
           "CANCELLED", "REJECTED"}
ASSUME BookingsAssumption == MaxVersion \in Nat \ {0} /\ DeskTarget \subseteq Status

Absent == [exists |-> FALSE, status |-> "PENDING", version |-> 0, binned |-> FALSE]
Operation == {"query", "cancel", "assistant", "set", "draft", "recycle", "restore", "purge",
              "settle", "refund", "refundExtra"}
Read == [status |-> row.status, version |-> row.version]
Off == [pc |-> "off", op |-> "query", read |-> [status |-> "PENDING", version |-> 0], to |-> "PENDING"]

BookingsInit ==
    /\ row = Absent
    /\ paying = "none" /\ extra = FALSE
    /\ writer = [w \in Writer |-> Off]
    /\ unguarded = FALSE

Paid == paying = "SUCCESSFUL"
Unrefunded == paying \in {"SUCCESSFUL", "PARTIALLY_REFUNDED"}
Leave(w) == writer' = [writer EXCEPT ![w] = Off]

-----------------------------------------------------------------------------
\* create_booking of one or several services, and create_service_enquiry: a
\* PENDING row once the details, the route's flight type, the notice and the
\* price computed from the catalogue are accepted.  With services that cannot
\* be had online the request goes on to file a query about them.
Book(w) ==
    /\ writer[w].pc = "off" /\ ~row.exists /\ row.version = 0
    /\ row' = [Absent EXCEPT !.exists = TRUE, !.version = 1]
    /\ writer' \in {writer, [writer EXCEPT ![w] = [Off EXCEPT !.pc = "save", !.read.version = 1]]}
    /\ UNCHANGED <<paying, extra, unguarded>>

\* save_booking_draft, validated and priced like a booking: without a reference
\* that is known it makes a DRAFT row; what it does to a row it finds is Written.
BookDraft ==
    /\ ~row.exists /\ row.version = 0
    /\ row' = [Absent EXCEPT !.exists = TRUE, !.version = 1, !.status = "DRAFT"]
    /\ UNCHANGED <<writer, paying, extra, unguarded>>

\* The row is read.  The bin's operations see it in the bin, the assistant, a
\* draft that names it and the payment core see it anywhere, everyone else out of
\* the bin.
Sees(op) == CASE op \in {"restore", "purge"} -> row.binned
              [] op \in {"assistant", "draft", "settle", "refund", "refundExtra"} -> TRUE
              [] OTHER -> ~row.binned
Load(w, op, to) ==
    /\ writer[w].pc = "off" /\ row.exists /\ Sees(op)
    /\ writer' = [writer EXCEPT ![w] = [pc |-> "decide", op |-> op, read |-> Read, to |-> to]]
    /\ UNCHANGED <<row, paying, extra, unguarded>>

\* save_booking_draft_endpoint admits the owner and whoever holds the draft's token.
LoadDraft(w) == Load(w, "draft", "DRAFT")

\* The booking router's requests on a row.
LoadRequest(w) ==
    \/ \E op \in {"cancel", "recycle", "restore", "purge"} : Load(w, op, "PENDING")
    \/ \E to \in DeskTarget : Load(w, "set", to)

Ready(w) == writer' = [writer EXCEPT ![w].pc = "save"]

\* cancel_booking: the payments are looked at only when the booking is CONFIRMED.
DecideCancel(w) ==
    /\ IF \/ writer[w].read.status \in {"COMPLETED", "CANCELLED"}
          \/ writer[w].read.status = "CONFIRMED" /\ Unrefunded
       THEN Leave(w) ELSE Ready(w)
    /\ UNCHANGED <<row, paying, extra, unguarded>>

\* admin_update_status: without a payment CONFIRMED takes force_confirm and a
\* reason, whose audit is committed first, so that the row is read once more.
DecideStatus(w) ==
    /\ \/ writer[w].to = "CONFIRMED" /\ Paid /\ Ready(w)
       \/ writer[w].to = "CONFIRMED" /\ ~Paid /\ Leave(w)
       \/ writer[w].to = "CONFIRMED" /\ ~Paid /\ row.exists
          /\ writer' = [writer EXCEPT ![w] = [@ EXCEPT !.pc = "save", !.read = Read]]
       \/ writer[w].to = "CANCELLED" /\ (IF Unrefunded THEN Leave(w) ELSE Ready(w))
       \/ writer[w].to \notin {"CONFIRMED", "CANCELLED"} /\ Ready(w)
    /\ UNCHANGED <<row, paying, extra, unguarded>>

\* A payment that arrives: of a CONFIRMED booking it is the one that confirmed it
\* or a PAY-DUP row, whether money or the desk confirmed it.
DecideSettle(w) ==
    /\ IF writer[w].read.status = "CONFIRMED" THEN Leave(w) /\ extra' \in {extra, TRUE}
       ELSE (IF paying = "PENDING" THEN Ready(w) ELSE Leave(w)) /\ UNCHANGED extra
    /\ UNCHANGED <<row, paying, unguarded>>

\* The others decide by the payment's row or by nothing.
DecideRest(w) ==
    /\ IF \/ writer[w].op = "refund" /\ ~Unrefunded
          \/ writer[w].op = "refundExtra" /\ ~extra
       THEN Leave(w) ELSE Ready(w)
    /\ UNCHANGED <<row, paying, extra, unguarded>>

Decide(w) ==
    /\ writer[w].pc = "decide"
    /\ CASE writer[w].op = "cancel" -> DecideCancel(w)
         [] writer[w].op = "set" -> DecideStatus(w)
         [] writer[w].op = "settle" -> DecideSettle(w)
         [] OTHER -> DecideRest(w)

-----------------------------------------------------------------------------
Target(w) ==
    CASE writer[w].op \in {"cancel", "assistant", "refund", "refundExtra"} -> "CANCELLED"
      [] writer[w].op = "set" -> writer[w].to
      [] writer[w].op = "settle" -> "CONFIRMED"
      [] writer[w].op = "draft" -> "DRAFT"
      [] OTHER -> row.status

Written(w) ==
    IF writer[w].op = "purge" THEN [Absent EXCEPT !.version = row.version]
    ELSE [row EXCEPT !.version = @ + 1, !.status = Target(w),
                     !.binned = IF writer[w].op \in {"recycle", "restore"} THEN ~@ ELSE @]

PayingAfter(w) ==
    CASE writer[w].op = "settle" -> "SUCCESSFUL"
      [] writer[w].op = "refund" -> "REFUNDED"
      [] writer[w].op = "purge" -> "none"
      [] OTHER -> paying

ExtraAfter(w) == extra /\ writer[w].op \notin {"refundExtra", "purge"}

\* What the desk's check does not cover: another status for a paid booking, a
\* draft saved over it, which asks for no status, the assistant, and the full
\* refund of a duplicate, which cancels the booking as if it were its payment.
Unchecked(w) ==
    /\ Unrefunded
    /\ \/ writer[w].op \in {"assistant", "draft", "refundExtra"}
       \/ writer[w].op = "set" /\ writer[w].to \notin {"CONFIRMED", "CANCELLED"}

\* Faulty: the last commit wins.
SaveAnyway(w) ==
    /\ writer[w].pc = "save" /\ row.exists /\ row.version < MaxVersion
    /\ row' = Written(w) /\ paying' = PayingAfter(w) /\ extra' = ExtraAfter(w)
    /\ unguarded' = (unguarded \/ Unchecked(w))
    /\ Leave(w)

\* The commit, with the payment's row where the operation writes it.
Save(w) ==
    /\ writer[w].pc = "save" /\ row.exists /\ row.version < MaxVersion
    /\ IF row.version = writer[w].read.version
       THEN /\ row' = Written(w) /\ paying' = PayingAfter(w) /\ extra' = ExtraAfter(w)
            /\ unguarded' = (unguarded \/ Unchecked(w))
       ELSE UNCHANGED <<row, paying, extra, unguarded>>
    /\ Leave(w)

\* The version moved on or the row is gone (StaleDataError), or the worker died.
Conflict(w) ==
    /\ writer[w].pc # "off"
    /\ Leave(w)
    /\ UNCHANGED <<row, paying, extra, unguarded>>

-----------------------------------------------------------------------------
\* An order or a link opens a payment; after a refund it is a row of its own.
\* The booking was open when it was read, before the gateway was asked.
OpenPayment ==
    /\ row.exists /\ paying \in {"none", "REFUNDED"}
    /\ paying' = "PENDING"
    /\ UNCHANGED <<row, extra, writer, unguarded>>

\* A partial refund leaves the booking's row alone.
RefundPartly ==
    /\ Paid
    /\ paying' = "PARTIALLY_REFUNDED"
    /\ UNCHANGED <<row, extra, writer, unguarded>>

BookingsNext ==
    \/ \E w \in Writer : Book(w) \/ LoadRequest(w) \/ LoadDraft(w) \/ Decide(w) \/ Save(w) \/ Conflict(w)
    \/ \E w \in Writer, op \in {"assistant", "settle", "refund", "refundExtra"} : Load(w, op, "PENDING")
    \/ BookDraft \/ OpenPayment \/ RefundPartly

BookingsSpec == BookingsInit /\ [][BookingsNext]_bookingVars

-----------------------------------------------------------------------------
BookingsTypeOK ==
    /\ row \in [exists : BOOLEAN, status : Status, version : 0 .. MaxVersion, binned : BOOLEAN]
    /\ paying \in {"none", "PENDING", "SUCCESSFUL", "PARTIALLY_REFUNDED", "REFUNDED"}
    /\ \A w \in Writer : writer[w].pc \in {"off", "decide", "save"} /\ writer[w].op \in Operation
    /\ extra \in BOOLEAN /\ unguarded \in BOOLEAN

\* "Paid booking must be refunded before cancellation": a CANCELLED booking has
\* no money on its payment that was not given back, however cancellation,
\* settlement, refund, bin and desk cross each other, unless an administrator had
\* moved the paid booking to another status, its owner had saved a draft over it,
\* the assistant cancelled it or a duplicate payment of it was refunded in full
\* (cancel_booking, admin_update_status, process_refund, Booking.version).
CancelledRefunded ==
    row.exists /\ row.status = "CANCELLED" /\ Unrefunded => unguarded
=============================================================================
