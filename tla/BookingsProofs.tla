--------------------------- MODULE BookingsProofs ---------------------------
(***************************************************************************)
(* A booking and the payment behind it, and a workflow instance and the    *)
(* airport booking that copies it, for any number of requests.  The        *)
(* invariant of the booking says what the version protects: while the row  *)
(* is the one a request read, it has the status that was read, and a       *)
(* cancellation that may still commit has no money to overlook.  That of   *)
(* the workflow says that a request no commit crossed still sees the state *)
(* it read, and that while nothing was passed by at most one request is on *)
(* its way from the instance to the booking, with the state it brings.     *)
(* Then the desks, for any number of clerks, agents and rows: the tables   *)
(* beside the bookings, and the desks that quote.                          *)
(***************************************************************************)
EXTENDS Bookings, WorkflowInstance, SharedDomain, ServiceEnquiries,
        FiniteSetTheorems, WellFoundedInduction, TLAPS

AtWork == {w \in Writer : writer[w].pc # "off"}
Current(w) == row.exists /\ writer[w].read.version = row.version
Cancelling(w) ==
    /\ writer[w].pc = "save"
    /\ \/ writer[w].op = "cancel"
       \/ writer[w].op = "set" /\ writer[w].to = "CANCELLED"

Task == [pc : {"off", "decide", "save"}, op : Operation,
         read : [status : Status, version : Nat], to : Status]
RowType == [exists : BOOLEAN, status : Status, version : Nat, binned : BOOLEAN]
Typed ==
    /\ row \in RowType
    /\ paying \in {"none", "PENDING", "SUCCESSFUL", "PARTIALLY_REFUNDED", "REFUNDED"}
    /\ writer \in [Writer -> Task]
    /\ extra \in BOOLEAN /\ unguarded \in BOOLEAN

\* A version is used once: a row that was purged does not come back.
VersionsOnce ==
    /\ row.exists => row.version > 0
    /\ row.version = 0 => paying = "none"
    /\ \A w \in AtWork : writer[w].read.version <= row.version

\* What a request decided by is still so if its commit will succeed.
ReadCurrent == \A w \in AtWork : Current(w) /\ writer[w].op # "query" => writer[w].read.status = row.status

\* Money stays on a confirmed booking.
MoneyConfirmed == row.exists /\ Unrefunded => row.status = "CONFIRMED" \/ unguarded

\* A cancellation that will succeed overlooks no money.
CancelSafe == \A w \in Writer : Cancelling(w) /\ Current(w) /\ Unrefunded => unguarded

BookingsInv == Typed /\ VersionsOnce /\ ReadCurrent /\ MoneyConfirmed /\ CancelSafe

\* There is no booking and nobody works on it.
LEMMA InitBooking == BookingsInit => BookingsInv
<1> SUFFICES ASSUME BookingsInit
             PROVE  BookingsInv
  OBVIOUS
<1>1. \A w \in Writer : writer[w] = Off
  BY DEF BookingsInit
<1>2. ~row.exists /\ row \in RowType /\ row.version = 0
  BY DEF BookingsInit, Absent, RowType, Status
<1>3. Off \in Task /\ Off.pc = "off"
  BY DEF Off, Task, Operation, Status
<1>4. Typed
  BY <1>2, <1>3 DEF BookingsInit, Typed
<1> QED
  BY <1>1, <1>2, <1>3, <1>4
  DEF BookingsInit, BookingsInv, VersionsOnce, ReadCurrent, MoneyConfirmed, CancelSafe, AtWork, Current,
      Cancelling

-----------------------------------------------------------------------------
\* A row that is made is read by nobody but the request that made it.
LEMMA MakeBooking ==
    ASSUME BookingsInv, BookDraft \/ \E w \in Writer : Book(w)
    PROVE  BookingsInv'
<1> DEFINE Made ==
             /\ row.version = 0 /\ ~row.exists
             /\ row' \in RowType /\ row'.exists /\ row'.version = 1
             /\ UNCHANGED <<paying, extra, unguarded>>
<1>1. Made
  <2>1. CASE BookDraft
    <3>1. row' = [exists |-> TRUE, status |-> "DRAFT", version |-> 1, binned |-> FALSE]
      BY <2>1 DEF BookDraft, Absent
    <3>2. row.version = 0 /\ ~row.exists /\ UNCHANGED <<paying, extra, unguarded>>
      BY <2>1 DEF BookDraft
    <3>3. row' \in RowType /\ row'.exists /\ row'.version = 1
      BY <3>1 DEF RowType, Status
    <3> QED
      BY <3>2, <3>3
  <2>2. ASSUME NEW w \in Writer, Book(w)
        PROVE  Made
    <3>1. row' = [exists |-> TRUE, status |-> "PENDING", version |-> 1, binned |-> FALSE]
      BY <2>2 DEF Book, Absent
    <3>2. row.version = 0 /\ ~row.exists /\ UNCHANGED <<paying, extra, unguarded>>
      BY <2>2 DEF Book
    <3>3. row' \in RowType /\ row'.exists /\ row'.version = 1
      BY <3>1 DEF RowType, Status
    <3> QED
      BY <3>2, <3>3
  <2> QED
    BY <2>1, <2>2
<1>2. paying = "none"
  BY <1>1 DEF BookingsInv, VersionsOnce
<1> DEFINE Others ==
             /\ writer' \in [Writer -> Task]
             /\ \A w \in Writer : \/ writer'[w] = writer[w]
                                  \/ writer'[w].op = "query" /\ writer'[w].read.version = 1
<1>3. Others
  <2>1. CASE BookDraft
    BY <2>1 DEF BookDraft, BookingsInv, Typed
  <2>2. ASSUME NEW w \in Writer, Book(w)
        PROVE  Others
    <3> DEFINE saving == [Off EXCEPT !.pc = "save", !.read.version = 1]
    <3>1. saving \in Task /\ saving.op = "query" /\ saving.read.version = 1
      BY DEF Task, Off, Operation, Status
    <3>2. writer' \in {writer, [writer EXCEPT ![w] = saving]}
      BY <2>2 DEF Book
    <3> HIDE DEF saving
    <3> QED
      BY <3>1, <3>2 DEF BookingsInv, Typed
  <2> QED
    BY <2>1, <2>2
<1>4. \A w \in Writer : writer[w].pc # "off" => writer[w].read.version = 0
  BY <1>1 DEF BookingsInv, Typed, Task, VersionsOnce, AtWork
<1> QED
  BY <1>1, <1>2, <1>3, <1>4
  DEF BookingsInv, Typed, VersionsOnce, ReadCurrent, MoneyConfirmed, CancelSafe, AtWork, Current,
      Cancelling, Unrefunded, Task, RowType

\* A row that is read is current.
LEMMA LoadBooking ==
    ASSUME BookingsInv, NEW w \in Writer, NEW op \in Operation, NEW to \in Status, Load(w, op, to)
    PROVE  BookingsInv'
<1>1. /\ row.exists /\ UNCHANGED <<row, paying, extra, unguarded>>
      /\ writer' = [writer EXCEPT ![w] = [pc |-> "decide", op |-> op, read |-> Read, to |-> to]]
  BY DEF Load
<1>2. Read \in [status : Status, version : Nat] /\ Read.version = row.version /\ Read.status = row.status
  BY DEF Read, BookingsInv, Typed, RowType
<1> QED
  BY <1>1, <1>2
  DEF BookingsInv, Typed, VersionsOnce, ReadCurrent, MoneyConfirmed, CancelSafe, AtWork, Current,
      Cancelling, Unrefunded, Task, RowType

\* A request that gives up leaves the others as they were.
LEMMA LeaveBooking ==
    ASSUME BookingsInv, NEW w \in Writer, Leave(w), UNCHANGED <<row, paying, extra, unguarded>>
    PROVE  BookingsInv'
  BY DEF BookingsInv, Typed, VersionsOnce, ReadCurrent, MoneyConfirmed, CancelSafe, AtWork, Current,
         Cancelling, Unrefunded, Task, RowType, Leave, Off, Operation, Status

\* A request goes on when its decision allows it: a cancellation that is current
\* found no money on the booking.
LEMMA GoOn ==
    ASSUME BookingsInv, NEW w \in Writer, Ready(w), UNCHANGED <<row, paying, extra, unguarded>>,
           writer[w].pc = "decide",
           (\/ writer[w].op = "cancel"
            \/ writer[w].op = "set" /\ writer[w].to = "CANCELLED") /\ Current(w) /\ Unrefunded
              => unguarded
    PROVE  BookingsInv'
<1>1. writer' = [writer EXCEPT ![w].pc = "save"]
  BY DEF Ready
<1>2. \A v \in Writer \ {w} : writer'[v] = writer[v]
  BY <1>1 DEF BookingsInv, Typed
<1>3. /\ writer'[w] \in Task /\ writer'[w].pc = "save" /\ writer'[w].op = writer[w].op
      /\ writer'[w].read = writer[w].read /\ writer'[w].to = writer[w].to
  BY <1>1 DEF BookingsInv, Typed, Task
<1> QED
  BY <1>1, <1>2, <1>3
  DEF BookingsInv, Typed, VersionsOnce, ReadCurrent, MoneyConfirmed, CancelSafe, AtWork, Current,
      Cancelling, Unrefunded

\* A PAY-DUP row that is written aside tells no decision apart.
LEMMA AsideBooking ==
    ASSUME BookingsInv, NEW w \in Writer, Leave(w), extra' \in BOOLEAN,
           UNCHANGED <<row, paying, unguarded>>
    PROVE  BookingsInv'
  BY DEF BookingsInv, Typed, VersionsOnce, ReadCurrent, MoneyConfirmed, CancelSafe, AtWork, Current,
         Cancelling, Unrefunded, Task, RowType, Leave, Off, Operation, Status

\* A payment that arrives.
LEMMA SettleBooking ==
    ASSUME BookingsInv, NEW w \in Writer, writer[w].pc = "decide", writer[w].op = "settle",
           DecideSettle(w)
    PROVE  BookingsInv'
<1>1. UNCHANGED <<row, paying, unguarded>> /\ extra \in BOOLEAN
  BY DEF DecideSettle, BookingsInv, Typed
<1>2. CASE Leave(w) /\ extra' \in {extra, TRUE}
  BY <1>1, <1>2, AsideBooking
<1>3. CASE Ready(w) /\ UNCHANGED extra
  BY <1>1, <1>3, GoOn
<1> QED
  BY <1>2, <1>3 DEF DecideSettle

\* The decisions.
LEMMA DecideBooking ==
    ASSUME BookingsInv, NEW w \in Writer, Decide(w)
    PROVE  BookingsInv'
<1>0. CASE writer[w].op = "settle"
  BY <1>0, SettleBooking DEF Decide
<1> SUFFICES ASSUME writer[w].op # "settle" PROVE BookingsInv'
  BY <1>0
<1>1. writer[w].pc = "decide" /\ UNCHANGED <<row, paying, extra, unguarded>>
  BY DEF Decide, DecideCancel, DecideStatus, DecideRest
<1>2. CASE Leave(w)
  BY <1>1, <1>2, LeaveBooking
<1>3. CASE Ready(w) /\ writer[w].op = "cancel" /\ DecideCancel(w)
  <2>1. \/ ~(writer[w].read.status \in {"COMPLETED", "CANCELLED"}
             \/ (writer[w].read.status = "CONFIRMED" /\ Unrefunded))
        \/ Leave(w)
    BY <1>3 DEF DecideCancel
  <2>2. Current(w) /\ Unrefunded => unguarded \/ Leave(w)
    BY <1>1, <1>3, <2>1 DEF BookingsInv, ReadCurrent, MoneyConfirmed, AtWork, Current
  <2> QED
    BY <1>1, <1>2, <1>3, <2>2, GoOn
<1>4. CASE Ready(w) /\ writer[w].op = "set" /\ DecideStatus(w)
  <2>1. writer[w].to = "CANCELLED" => ~Unrefunded \/ Leave(w)
    BY <1>4 DEF DecideStatus
  <2> QED
    BY <1>1, <1>2, <1>4, <2>1, GoOn
<1>5. CASE Ready(w) /\ writer[w].op \notin {"cancel", "set"}
  BY <1>1, <1>5, GoOn
<1>6. CASE /\ writer[w].op = "set" /\ writer[w].to = "CONFIRMED" /\ row.exists
           /\ writer' = [writer EXCEPT ![w] = [@ EXCEPT !.pc = "save", !.read = Read]]
  <2>1. \A v \in Writer \ {w} : writer'[v] = writer[v]
    BY <1>6 DEF BookingsInv, Typed
  <2>2. Read \in [status : Status, version : Nat] /\ Read.version = row.version /\ Read.status = row.status
    BY DEF Read, BookingsInv, Typed, RowType
  <2>3. /\ writer'[w] \in Task /\ writer'[w].pc = "save" /\ writer'[w].op = "set"
        /\ writer'[w].read = Read /\ writer'[w].to = "CONFIRMED"
    BY <1>6, <2>2 DEF BookingsInv, Typed, Task
  <2>4. writer' \in [Writer -> Task]
    BY <1>6, <2>1, <2>3 DEF BookingsInv, Typed
  <2> QED
    BY <1>1, <1>6, <2>1, <2>2, <2>3, <2>4
    DEF BookingsInv, Typed, RowType, VersionsOnce, ReadCurrent, MoneyConfirmed, CancelSafe, AtWork,
        Current, Cancelling, Unrefunded
<1>7. \/ Leave(w)
      \/ Ready(w) /\ writer[w].op = "cancel" /\ DecideCancel(w)
      \/ Ready(w) /\ writer[w].op = "set" /\ DecideStatus(w)
      \/ Ready(w) /\ writer[w].op \notin {"cancel", "set"}
      \/ /\ writer[w].op = "set" /\ writer[w].to = "CONFIRMED" /\ row.exists
         /\ writer' = [writer EXCEPT ![w] = [@ EXCEPT !.pc = "save", !.read = Read]]
  <2>1. CASE writer[w].op = "cancel"
    BY <2>1 DEF Decide, DecideCancel
  <2>2. CASE writer[w].op = "set"
    BY <2>2 DEF Decide, DecideStatus
  <2>3. CASE writer[w].op \notin {"cancel", "set"}
    BY <2>3 DEF Decide, DecideRest
  <2> QED
    BY <2>1, <2>2, <2>3
<1> QED
  BY <1>2, <1>3, <1>4, <1>5, <1>6, <1>7

-----------------------------------------------------------------------------
\* A commit that succeeds moves the version on, so that nobody else is current.
\* What it leaves on the booking is confirmed, refunded or past the checks.
LEMMA CommitBooking ==
    ASSUME BookingsInv, NEW w \in Writer, Save(w), row.version = writer[w].read.version
    PROVE  BookingsInv'
<1>1. /\ row.exists /\ writer[w].pc = "save" /\ row.version > 0
      /\ row' = Written(w) /\ paying' = PayingAfter(w) /\ extra' = ExtraAfter(w)
      /\ unguarded' = (unguarded \/ Unchecked(w))
      /\ writer' = [writer EXCEPT ![w] = Off]
  BY DEF Save, Leave, BookingsInv, VersionsOnce
<1>2. writer[w] \in Task /\ Target(w) \in Status
  BY DEF BookingsInv, Typed, Task, RowType, Target, Status
<1>3. /\ row' \in RowType
      /\ row'.exists => row'.version = row.version + 1 /\ row'.status = Target(w)
                        /\ writer[w].op # "purge"
      /\ row'.version \in {row.version, row.version + 1}
  <2>1. CASE writer[w].op = "purge"
    BY <1>1, <2>1 DEF Written, Absent, BookingsInv, Typed, RowType, Status
  <2>2. CASE writer[w].op # "purge"
    <3>1. row' = [row EXCEPT !.version = @ + 1, !.status = Target(w),
                     !.binned = IF writer[w].op \in {"recycle", "restore"} THEN ~@ ELSE @]
      BY <1>1, <2>2 DEF Written
    <3>2. row'.binned \in BOOLEAN
      BY <3>1 DEF BookingsInv, Typed, RowType
    <3>3. /\ row' = [exists |-> row.exists, status |-> Target(w), version |-> row.version + 1,
                     binned |-> row'.binned]
          /\ row.exists \in BOOLEAN /\ row.version \in Nat
      BY <3>1 DEF BookingsInv, Typed, RowType
    <3> QED
      BY <1>2, <2>2, <3>2, <3>3 DEF RowType
  <2> QED
    BY <2>1, <2>2
<1>4. Typed'
  <2>1. writer' \in [Writer -> Task]
    BY <1>1 DEF BookingsInv, Typed, Task, Off, Operation, Status
  <2>2. paying' \in {"none", "PENDING", "SUCCESSFUL", "PARTIALLY_REFUNDED", "REFUNDED"}
    BY <1>1 DEF BookingsInv, Typed, PayingAfter
  <2>3. unguarded' \in BOOLEAN
    BY <1>1 DEF BookingsInv, Typed, Unchecked, Unrefunded
  <2>4. extra' \in BOOLEAN
    BY <1>1 DEF BookingsInv, Typed, ExtraAfter
  <2> QED
    BY <1>3, <2>1, <2>2, <2>3, <2>4 DEF Typed
<1>5. row.version \in Nat /\ \A v \in Writer : writer[v].read.version \in Nat
  BY DEF BookingsInv, Typed, Task, RowType
<1>6. /\ writer'[w].pc = "off"
      /\ \A v \in Writer \ {w} : writer'[v] = writer[v]
  BY <1>1 DEF Off, BookingsInv, Typed
<1>7. \A v \in Writer : writer'[v].pc # "off" =>
         ~Current(v)' /\ writer'[v].read.version <= row'.version
  BY <1>3, <1>5, <1>6 DEF Current, BookingsInv, VersionsOnce, AtWork
<1>8. VersionsOnce'
  BY <1>1, <1>3, <1>5, <1>7 DEF VersionsOnce, AtWork
<1>9. MoneyConfirmed'
  <2> SUFFICES ASSUME row'.exists, Unrefunded', ~unguarded'
               PROVE  row'.status = "CONFIRMED"
    BY DEF MoneyConfirmed
  <2>1. row'.status = Target(w) /\ writer[w].op # "purge" /\ ~unguarded /\ ~Unchecked(w)
    BY <1>1, <1>3 DEF BookingsInv, Typed, Unchecked, Unrefunded
  <2>2. writer[w].op # "refund"
    BY <1>1 DEF PayingAfter, Unrefunded
  <2>3. CASE writer[w].op = "settle"
    BY <2>1, <2>3 DEF Target
  <2>4. CASE writer[w].op # "settle"
    <3>1. Unrefunded
      BY <1>1, <2>1, <2>2, <2>4 DEF PayingAfter, Unrefunded
    <3>2. row.status = "CONFIRMED" /\ ~Cancelling(w)
      BY <1>1, <2>1, <3>1 DEF BookingsInv, MoneyConfirmed, CancelSafe, Current
    <3>3. /\ writer[w].op \notin {"assistant", "draft", "refundExtra", "cancel"}
          /\ writer[w].op = "set" => writer[w].to = "CONFIRMED"
      BY <1>1, <2>1, <3>1, <3>2 DEF Unchecked, Cancelling
    <3> QED
      BY <2>1, <2>2, <2>4, <3>2, <3>3 DEF Target
  <2> QED
    BY <2>3, <2>4
<1> QED
  BY <1>4, <1>7, <1>8, <1>9 DEF BookingsInv, ReadCurrent, CancelSafe, Cancelling, AtWork

\* A payment that is opened or partly refunded settles nothing.
LEMMA PayBooking ==
    ASSUME BookingsInv, OpenPayment \/ RefundPartly
    PROVE  BookingsInv'
<1>1. /\ UNCHANGED <<row, extra, writer, unguarded>>
      /\ paying' \in {"PENDING", "PARTIALLY_REFUNDED"} /\ row.version # 0
      /\ Unrefunded' => Unrefunded
  BY DEF OpenPayment, RefundPartly, Paid, Unrefunded, BookingsInv, VersionsOnce, Typed, RowType
<1> QED
  BY <1>1 DEF BookingsInv, Typed, VersionsOnce, ReadCurrent, MoneyConfirmed, CancelSafe, AtWork, Current,
              Cancelling

-----------------------------------------------------------------------------
\* Every step keeps the invariant.
LEMMA NextBooking == BookingsInv /\ [BookingsNext]_bookingVars => BookingsInv'
<1> SUFFICES ASSUME BookingsInv, [BookingsNext]_bookingVars
             PROVE  BookingsInv'
  OBVIOUS
<1>1. CASE BookDraft \/ \E w \in Writer : Book(w)
  BY <1>1, MakeBooking
<1>2. ASSUME NEW w \in Writer, LoadRequest(w) \/ LoadDraft(w)
             \/ \E op \in {"assistant", "settle", "refund", "refundExtra"} : Load(w, op, "PENDING")
      PROVE  BookingsInv'
  BY <1>2, LoadBooking, BookingsAssumption DEF LoadRequest, LoadDraft, Operation, Status
<1>3. ASSUME NEW w \in Writer, Decide(w)
      PROVE  BookingsInv'
  BY <1>3, DecideBooking
<1>4. ASSUME NEW w \in Writer, Save(w)
      PROVE  BookingsInv'
  BY <1>4, CommitBooking, LeaveBooking DEF Save
<1>5. ASSUME NEW w \in Writer, Conflict(w)
      PROVE  BookingsInv'
  BY <1>5, LeaveBooking DEF Conflict
<1>6. CASE OpenPayment \/ RefundPartly
  BY <1>6, PayBooking
<1>7. CASE UNCHANGED bookingVars
  BY <1>7 DEF bookingVars, BookingsInv, Typed, VersionsOnce, ReadCurrent, MoneyConfirmed, CancelSafe,
              AtWork, Current, Cancelling, Unrefunded
<1> QED
  BY <1>1, <1>2, <1>3, <1>4, <1>5, <1>6, <1>7 DEF BookingsNext

\* "Paid booking must be refunded before cancellation": for any number of requests
\* a CANCELLED booking has no money on its payment that was not given back, unless it
\* left CONFIRMED past the desk's check or by the refund of a duplicate
\* (cancel_booking, admin_update_status, process_refund, Booking.version).
THEOREM CancelledRefundedTheorem == BookingsSpec => []CancelledRefunded
<1>1. BookingsInv => CancelledRefunded
  BY DEF BookingsInv, MoneyConfirmed, CancelledRefunded
<1> QED
  BY <1>1, InitBooking, NextBooking, PTL DEF BookingsSpec

-----------------------------------------------------------------------------
(* The workflow of an airport booking.                                      *)

RequestType == [pc : {"free", "write", "refresh", "status"},
                op : {"none", "transition", "cancel", "force"}, via : {"none", "engine", "airport"},
                role : Role \cup {"none"}, read : States \cup {"none"}, to : States \cup {"none"},
                crossed : BOOLEAN]

\* The type invariant: a request that copies a status came through the booking,
\* and a state to be written is a state.
WellFormed ==
    /\ WorkflowTypeOK
    /\ \A q \in Request :
          /\ request[q].pc \in {"refresh", "status"} => request[q].via = "airport"
          /\ request[q].pc \in {"write", "status"} => request[q].to \in States

\* The definition's states.
LEMMA StatesKnown == {"DRAFT", "BOOKED", "CANCELLED"} \subseteq States
<1>1. "DRAFT" \in {e.from : e \in Edges} /\ "BOOKED" \in {e.from : e \in Edges}
  <2>1. Edge("DRAFT", "BOOKED", {"customer"}) \in Edges
    BY DEF Edges
  <2>2. Edge("BOOKED", "STAFF_ASSIGNED", {"manager"}) \in Edges
    BY DEF Edges
  <2> QED
    BY <2>1, <2>2 DEF Edge
<1> QED
  BY <1>1 DEF States, Terminal

\* A request that another commit crosses stays what it was otherwise.
MarkCrossed(r) == [r EXCEPT !.crossed = TRUE]

\* ... and keeps its type.
LEMMA MarkType ==
    ASSUME NEW r \in RequestType
    PROVE  /\ MarkCrossed(r) \in RequestType
           /\ MarkCrossed(r).pc = r.pc /\ MarkCrossed(r).op = r.op /\ MarkCrossed(r).via = r.via /\ MarkCrossed(r).role = r.role
           /\ MarkCrossed(r).read = r.read /\ MarkCrossed(r).to = r.to /\ MarkCrossed(r).crossed
  BY DEF MarkCrossed, RequestType

\* Those that have read and not yet written are crossed by a commit, and no other.
LEMMA CrossedOnly ==
    ASSUME NEW q \in Request
    PROVE  /\ DOMAIN Crossed(q) = Request
           /\ \A p \in Request :
                 Crossed(q)[p] = IF p # q /\ request[p].pc = "write" THEN MarkCrossed(request[p])
                                                                    ELSE request[p]
  BY DEF Crossed, MarkCrossed

-----------------------------------------------------------------------------
(* Type correctness.                                                       *)

\* A request that begins is well formed.
LEMMA BeginType ==
    ASSUME WellFormed, NEW q \in Request, NEW op \in {"transition", "cancel", "force"},
           NEW via \in {"engine", "airport"}, NEW role \in Role, NEW to \in States,
           Begin(q, op, via, role, to), UNCHANGED <<instance, last, airport, aside>>
    PROVE  WellFormed'
<1> DEFINE new == [pc |-> "write", op |-> op, via |-> via, role |-> role,
                   read |-> instance.state, to |-> to, crossed |-> FALSE]
<1>1. new \in RequestType /\ new.pc = "write" /\ new.to = to
  BY DEF WellFormed, WorkflowTypeOK, RequestType
<1>2. request' = [request EXCEPT ![q] = new]
  BY DEF Begin
<1> HIDE DEF new
<1> QED
  BY <1>1, <1>2 DEF WellFormed, WorkflowTypeOK, RequestType

\* Every step keeps the types.
LEMMA TypeStep == WellFormed /\ [WorkflowNext]_workflowVars => WellFormed'
<1> SUFFICES ASSUME WellFormed, [WorkflowNext]_workflowVars
             PROVE  WellFormed'
  OBVIOUS
<1>t. /\ instance \in [state : States, frozen : BOOLEAN]
      /\ last \in [to : States, crossed : BOOLEAN]
      /\ airport \in [linked : BOOLEAN, status : States]
      /\ request \in [Request -> RequestType]
      /\ aside \in BOOLEAN
  BY DEF WellFormed, WorkflowTypeOK, RequestType
<1>f. Free \in RequestType /\ Free.pc = "free"
  BY DEF Free, RequestType
<1>1. CASE Link \/ CancelUnlinked
  <2>1. UNCHANGED <<instance, last, request, aside>>
    BY <1>1 DEF Link, CancelUnlinked
  <2>2. airport' \in [linked : BOOLEAN, status : States]
    <3>1. CASE Link
      BY <3>1, <1>t, StatesKnown DEF Link
    <3>2. CASE CancelUnlinked
      <4>1. airport' = [airport EXCEPT !.status = "CANCELLED"]
        BY <3>2 DEF CancelUnlinked
      <4> QED
        BY <4>1, <1>t, StatesKnown
    <3> QED
      BY <1>1, <3>1, <3>2
  <2> QED
    BY <2>1, <2>2 DEF WellFormed, WorkflowTypeOK
<1>2. ASSUME NEW q \in Request, ReadTransition(q) \/ ReadOverride(q)
      PROVE  WellFormed'
  <2>1. Vias \subseteq {"engine", "airport"} /\ "admin" \in Role
    BY DEF Vias, Role
  <2> QED
    BY <1>2, <2>1, BeginType, StatesKnown, ForceAssumption DEF ReadTransition, ReadOverride
<1>3. ASSUME NEW q \in Request, Write(q)
      PROVE  WellFormed'
  <2> DEFINE mine == IF request[q].via = "airport"
                     THEN [Free EXCEPT !.pc = "refresh", !.via = "airport", !.op = request[q].op]
                     ELSE Free
  <2>1. mine \in RequestType /\ mine.pc \in {"free", "refresh"}
        /\ (mine.pc = "refresh" => mine.via = "airport")
    BY <1>t, <1>f DEF RequestType, Free
  <2>2. request' = [Crossed(q) EXCEPT ![q] = mine]
    BY <1>3 DEF Write
  <2>3. \A p \in Request : Crossed(q)[p] \in RequestType /\ Crossed(q)[p].pc = request[p].pc
                           /\ Crossed(q)[p].via = request[p].via /\ Crossed(q)[p].to = request[p].to
    BY <1>t, CrossedOnly, MarkType
  <2> HIDE DEF mine
  <2>4. request' \in [Request -> RequestType]
    BY <2>1, <2>2, <2>3, CrossedOnly
  <2>5. \A p \in Request : /\ request'[p].pc \in {"refresh", "status"} => request'[p].via = "airport"
                           /\ request'[p].pc \in {"write", "status"} => request'[p].to \in States
    BY <2>1, <2>2, <2>3, CrossedOnly DEF WellFormed
  <2>6. request[q].to \in States /\ request[q].crossed \in BOOLEAN
    BY <1>3, <1>t DEF Write, WellFormed, RequestType
  <2>7. instance' \in [state : States, frozen : BOOLEAN]
    BY <1>3, <1>t, <2>6 DEF Write
  <2>8. last' \in [to : States, crossed : BOOLEAN] /\ UNCHANGED airport /\ aside' \in BOOLEAN
    BY <1>3, <1>t, <2>6 DEF Write
  <2> QED
    BY <1>t, <2>4, <2>5, <2>7, <2>8 DEF WellFormed, WorkflowTypeOK, RequestType
<1>4. ASSUME NEW q \in Request, Refresh(q)
      PROVE  WellFormed'
  <2> DEFINE brought == IF request[q].op = "cancel" THEN "CANCELLED" ELSE instance.state
  <2>1. brought \in States
    BY <1>t, StatesKnown
  <2>2. request' = [request EXCEPT ![q] = [request[q] EXCEPT !.pc = "status", !.to = brought]]
    BY <1>4, <1>t DEF Refresh, RequestType
  <2>3. request[q].pc = "refresh" /\ UNCHANGED <<instance, last, airport, aside>>
    BY <1>4 DEF Refresh
  <2> DEFINE new == [request[q] EXCEPT !.pc = "status", !.to = brought]
  <2>4. new \in RequestType /\ new.via = request[q].via /\ new.to = brought
    BY <1>t, <2>1 DEF RequestType
  <2> HIDE DEF brought, new
  <2>5. request' = [request EXCEPT ![q] = new]
    BY <2>2 DEF new
  <2> QED
    BY <1>t, <2>1, <2>3, <2>4, <2>5 DEF WellFormed, WorkflowTypeOK, RequestType
<1>5. ASSUME NEW q \in Request, CopyStatus(q)
      PROVE  WellFormed'
  <2>1. request[q].to \in States
    BY <1>5 DEF CopyStatus, WellFormed
  <2> QED
    BY <1>5, <1>t, <1>f, <2>1 DEF CopyStatus, WellFormed, WorkflowTypeOK, RequestType
<1>6. ASSUME NEW q \in Request, Abandon(q)
      PROVE  WellFormed'
  BY <1>6, <1>t, <1>f DEF Abandon, WellFormed, WorkflowTypeOK, RequestType
<1>7. ASSUME NEW frozen \in BOOLEAN, SetFrozen(frozen)
      PROVE  WellFormed'
  <2>1. \A p \in Request :
            request'[p] = IF request[p].pc = "write" THEN MarkCrossed(request[p]) ELSE request[p]
    BY <1>7 DEF SetFrozen, MarkCrossed
  <2>2. instance' \in [state : States, frozen : BOOLEAN]
    BY <1>7, <1>t DEF SetFrozen
  <2>3. DOMAIN request' = Request /\ request' = [p \in Request |-> request'[p]]
        /\ UNCHANGED <<last, airport, aside>>
    BY <1>7 DEF SetFrozen
  <2>4. request' \in [Request -> RequestType]
    BY <1>t, <2>1, <2>3, MarkType
  <2>5. \A p \in Request : request'[p].pc = request[p].pc /\ request'[p].via = request[p].via
                           /\ request'[p].to = request[p].to
    BY <1>t, <2>1, MarkType
  <2> QED
    BY <1>t, <2>2, <2>3, <2>4, <2>5 DEF WellFormed, WorkflowTypeOK, RequestType
<1>8. CASE UNCHANGED workflowVars
  BY <1>8 DEF workflowVars, WellFormed, WorkflowTypeOK
<1> QED
  BY <1>1, <1>2, <1>3, <1>4, <1>5, <1>6, <1>7, <1>8 DEF WorkflowNext

\* The initial state is type correct.
LEMMA TypeInit == WorkflowInit => WellFormed
<1> SUFFICES ASSUME WorkflowInit
             PROVE  WellFormed
  OBVIOUS
<1>1. Free \in RequestType /\ Free.pc = "free"
  BY DEF Free, RequestType
<1>2. request \in [Request -> RequestType] /\ \A q \in Request : request[q].pc = "free"
  BY <1>1 DEF WorkflowInit
<1> QED
  BY <1>2, StatesKnown DEF WorkflowInit, WellFormed, WorkflowTypeOK, RequestType

\* Every reachable state is type correct (execute_transition, AirportService).
THEOREM WorkflowTyped == WorkflowSpec => []WorkflowTypeOK
<1>1. WellFormed => WorkflowTypeOK
  BY DEF WellFormed
<1> QED
  BY <1>1, TypeInit, TypeStep, PTL DEF WorkflowSpec

-----------------------------------------------------------------------------
(* The history.                                                            *)

\* The history ends in the instance's state, and a request that was not crossed
\* sees the instance as it read it.
Seen(q) ==
    request[q].pc = "write" /\ ~request[q].crossed =>
        /\ request[q].read = instance.state
        /\ request[q].op = "transition" =>
              /\ Allowed(request[q].role, request[q].read, request[q].to)
              /\ instance.frozen => request[q].role = "admin"
HistoryInv == (last.crossed \/ last.to = instance.state) /\ \A q \in Request : Seen(q)

\* Requests that a step leaves alone see what they saw.
LEMMA SeenKept ==
    ASSUME HistoryInv, UNCHANGED <<instance, last>>,
           \A q \in Request : request'[q] = request[q] \/ Seen(q)'
    PROVE  HistoryInv'
  BY DEF HistoryInv, Seen

\* Every step keeps the invariant.
LEMMA HistoryStep == WellFormed /\ HistoryInv /\ [WorkflowNext]_workflowVars => HistoryInv'
<1> SUFFICES ASSUME WellFormed, HistoryInv, [WorkflowNext]_workflowVars
             PROVE  HistoryInv'
  OBVIOUS
<1>t. request \in [Request -> RequestType]
  BY DEF WellFormed, WorkflowTypeOK, RequestType
<1>1. CASE Link \/ CancelUnlinked \/ UNCHANGED workflowVars
  BY <1>1, SeenKept DEF Link, CancelUnlinked, workflowVars
<1>2. ASSUME NEW q \in Request, ReadTransition(q)
      PROVE  HistoryInv'
  <2>1. UNCHANGED <<instance, last>>
    BY <1>2 DEF ReadTransition
  <2>2. PICK role \in Role, via \in Vias, to \in States :
           /\ instance.frozen => role = "admin"
           /\ Allowed(role, instance.state, to)
           /\ Begin(q, "transition", via, role, to)
    BY <1>2 DEF ReadTransition
  <2>3. /\ request'[q].read = instance.state /\ request'[q].role = role /\ request'[q].to = to
        /\ \A p \in Request \ {q} : request'[p] = request[p]
    BY <1>t, <2>2 DEF Begin
  <2>4. Seen(q)'
    <3>1. instance' = instance /\ Allowed(role, instance'.state, to)
      BY <2>1, <2>2
    <3> QED
      BY <2>1, <2>2, <2>3, <3>1 DEF Seen
  <2> QED
    BY <2>1, <2>3, <2>4, SeenKept
<1>3. ASSUME NEW q \in Request, ReadOverride(q)
      PROVE  HistoryInv'
  <2>1. UNCHANGED <<instance, last>>
    BY <1>3 DEF ReadOverride
  <2>2. /\ request'[q].read = instance.state /\ request'[q].op \in {"cancel", "force"}
        /\ \A p \in Request \ {q} : request'[p] = request[p]
    BY <1>3, <1>t DEF ReadOverride, Begin
  <2>3. Seen(q)'
    BY <2>1, <2>2 DEF Seen
  <2> QED
    BY <2>1, <2>2, <2>3, SeenKept
<1>4. ASSUME NEW q \in Request, Write(q)
      PROVE  HistoryInv'
  <2>1. \A p \in Request : ~(request'[p].pc = "write" /\ ~request'[p].crossed)
    <3>1. \A p \in Request \ {q} : request'[p] = Crossed(q)[p]
      BY <1>4, CrossedOnly DEF Write
    <3>2. request'[q].pc \in {"free", "refresh"}
      BY <1>4, CrossedOnly DEF Write, Free
    <3> QED
      BY <1>t, <3>1, <3>2, CrossedOnly, MarkType DEF RequestType
  <2>2. last'.to = request[q].to /\ last'.crossed = request[q].crossed
    BY <1>4 DEF Write
  <2>3. instance'.state = IF request[q].to = request[q].read THEN instance.state ELSE request[q].to
    BY <1>4 DEF Write, WellFormed, WorkflowTypeOK
  <2>4. request[q].pc = "write"
    BY <1>4 DEF Write
  <2> QED
    BY <2>1, <2>2, <2>3, <2>4 DEF HistoryInv, Seen
<1>5. ASSUME NEW q \in Request, Refresh(q) \/ CopyStatus(q) \/ Abandon(q)
      PROVE  HistoryInv'
  <2>1. UNCHANGED <<instance, last>>
    BY <1>5 DEF Refresh, CopyStatus, Abandon
  <2>2. /\ request'[q].pc # "write"
        /\ \A p \in Request \ {q} : request'[p] = request[p]
    BY <1>5, <1>t DEF Refresh, CopyStatus, Abandon, Free, RequestType
  <2> QED
    BY <2>1, <2>2, SeenKept DEF Seen
<1>6. ASSUME NEW frozen \in BOOLEAN, SetFrozen(frozen)
      PROVE  HistoryInv'
  <2>1. \A p \in Request :
            request'[p] = IF request[p].pc = "write" THEN MarkCrossed(request[p]) ELSE request[p]
    BY <1>6 DEF SetFrozen, MarkCrossed
  <2>2. instance'.state = instance.state /\ UNCHANGED last
    BY <1>6 DEF SetFrozen, WellFormed, WorkflowTypeOK
  <2> QED
    BY <1>t, <2>1, <2>2, MarkType DEF HistoryInv, Seen
<1> QED
  BY <1>1, <1>2, <1>3, <1>4, <1>5, <1>6 DEF WorkflowNext

\* The history is a walk through the definition for any number of requests,
\* unless a row was crossed (execute_transition, freeze_instance).
THEOREM HistoryTheorem == WorkflowSpec => HistoryLegal
<1>1. WorkflowInit => HistoryInv
  BY DEF WorkflowInit, HistoryInv, Seen, Free
<1>2. WellFormed /\ HistoryInv /\ [WorkflowNext]_workflowVars
        => [\A q \in Request : LegalRow(q)]_workflowVars
  <2> SUFFICES ASSUME WellFormed, HistoryInv, WorkflowNext, NEW q \in Request,
                      last' # last, request[q].pc = "write", request'[q].pc # "write",
                      ~request[q].crossed
               PROVE  LegalRow(q)
    BY DEF LegalRow
  <2>1. Write(q)
    <3>1. PICK p \in Request : Write(p)
      BY DEF WorkflowNext, Link, CancelUnlinked, ReadTransition, ReadOverride, Refresh, CopyStatus,
             Abandon, SetFrozen
    <3>2. p # q => request'[q] = MarkCrossed(request[q])
      BY <3>1, CrossedOnly DEF Write
    <3>3. MarkCrossed(request[q]).pc = "write"
      BY MarkType DEF WellFormed, WorkflowTypeOK, RequestType
    <3> QED
      BY <3>1, <3>2, <3>3
  <2>2. last'.to = request[q].to
    BY <2>1 DEF Write
  <2> QED
    BY <2>2 DEF LegalRow, HistoryInv, Seen
<1> QED
  BY <1>1, <1>2, TypeInit, TypeStep, HistoryStep, PTL DEF WorkflowSpec, HistoryLegal

-----------------------------------------------------------------------------
(* The customer's copy.                                                    *)

Copying(q) == request[q].pc \in {"refresh", "status"}

\* Only a booking that names its instance is copied to.
ViaInv ==
    \A q \in Request :
        /\ request[q].pc = "write" => request[q].via \in {"engine", "airport"}
        /\ request[q].via = "airport" => airport.linked
        /\ request[q].pc = "write" /\ request[q].op = "cancel" => request[q].to = "CANCELLED"

\* While nothing was passed by, one request at a time brings the state.
OnWay ==
    /\ ~airport.linked => instance.state = "DRAFT"
    /\ \A p, q \in Request : Copying(p) /\ Copying(q) => p = q
    /\ \A q \in Request :
          /\ request[q].pc = "refresh" /\ request[q].op = "cancel" => instance.state = "CANCELLED"
          /\ request[q].pc = "status" => request[q].to = instance.state
    /\ airport.linked /\ (\A q \in Request : ~Copying(q)) => airport.status = instance.state
CopyInv == ViaInv /\ (~aside => OnWay)

\* A commit takes the copy along unless it sets aside.
LEMMA CopyWrite ==
    ASSUME WellFormed, HistoryInv, CopyInv, NEW q \in Request, Write(q)
    PROVE  CopyInv'
<1>t. request \in [Request -> RequestType]
  BY DEF WellFormed, WorkflowTypeOK, RequestType
<1>1. \A p \in Request \ {q} : /\ request'[p].pc = request[p].pc /\ request'[p].via = request[p].via
                               /\ request'[p].op = request[p].op /\ request'[p].to = request[p].to
  <2>1. \A p \in Request \ {q} : request'[p] = Crossed(q)[p]
    BY CrossedOnly DEF Write
  <2> QED
    BY <1>t, <2>1, CrossedOnly, MarkType
<1>2. /\ request[q].pc = "write" /\ UNCHANGED airport
      /\ aside' = (aside \/ request[q].via = "engine" \/ request[q].crossed \/ \E p \in Request \ {q} :
                        request[p].via = "airport" /\ request[p].pc \in {"refresh", "status"})
  BY DEF Write
<1>3. IF request[q].via = "airport"
      THEN request'[q].pc = "refresh" /\ request'[q].via = "airport" /\ request'[q].op = request[q].op
      ELSE request'[q].pc = "free" /\ request'[q].via = "none"
  BY CrossedOnly DEF Write, Free
<1>4. ViaInv'
  BY <1>1, <1>2, <1>3 DEF CopyInv, ViaInv
<1>5. ASSUME ~aside'
      PROVE  OnWay'
  <2>1. /\ request[q].via = "airport" /\ ~request[q].crossed /\ airport.linked
        /\ \A p \in Request \ {q} : ~Copying(p)
    BY <1>2, <1>5 DEF CopyInv, ViaInv, Copying, WellFormed
  <2>2. instance'.state = request[q].to
    BY <1>2, <2>1 DEF Write, HistoryInv, Seen, WellFormed, WorkflowTypeOK
  <2>3. /\ request'[q].pc = "refresh" /\ Copying(q)'
        /\ \A p \in Request \ {q} : ~Copying(p)' /\ request'[p].pc \notin {"refresh", "status"}
    BY <1>1, <1>3, <2>1 DEF Copying
  <2>4. request'[q].op = "cancel" => request[q].to = "CANCELLED"
    BY <1>2, <1>3, <2>1 DEF CopyInv, ViaInv
  <2> QED
    BY <1>2, <2>1, <2>2, <2>3, <2>4 DEF OnWay
<1> QED
  BY <1>4, <1>5 DEF CopyInv

\* Every step keeps the invariant.
LEMMA CopyStep == WellFormed /\ HistoryInv /\ CopyInv /\ [WorkflowNext]_workflowVars => CopyInv'
<1> SUFFICES ASSUME WellFormed, HistoryInv, CopyInv, [WorkflowNext]_workflowVars
             PROVE  CopyInv'
  OBVIOUS
<1>t. request \in [Request -> RequestType]
  BY DEF WellFormed, WorkflowTypeOK, RequestType
<1>a. airport \in [linked : BOOLEAN, status : States] /\ instance \in [state : States, frozen : BOOLEAN]
  BY DEF WellFormed, WorkflowTypeOK
<1>1. CASE UNCHANGED workflowVars
  BY <1>1 DEF workflowVars, CopyInv, ViaInv, OnWay, Copying
<1>2. CASE Link
  <2>1. airport'.linked /\ airport'.status = "DRAFT" /\ ~airport.linked
        /\ UNCHANGED <<instance, request, aside>>
    BY <1>2 DEF Link
  <2> QED
    BY <2>1 DEF CopyInv, ViaInv, OnWay, Copying
<1>3. CASE CancelUnlinked
  <2>1. ~airport'.linked /\ ~airport.linked /\ UNCHANGED <<instance, request, aside>>
    BY <1>3, <1>a DEF CancelUnlinked
  <2> QED
    BY <2>1 DEF CopyInv, ViaInv, OnWay, Copying
<1>4. ASSUME NEW q \in Request, ReadTransition(q) \/ ReadOverride(q)
      PROVE  CopyInv'
  <2>1. /\ UNCHANGED <<instance, airport, aside>> /\ request[q].pc = "free"
        /\ \A p \in Request \ {q} : request'[p] = request[p]
        /\ request'[q].pc = "write" /\ request'[q].via \in Vias
        /\ request'[q].op = "cancel" => request'[q].to = "CANCELLED"
    BY <1>4, <1>t DEF ReadTransition, ReadOverride, Begin, Vias
  <2>2. \A p \in Request : Copying(p)' <=> Copying(p)
    BY <2>1 DEF Copying
  <2>3. ViaInv'
    BY <2>1 DEF CopyInv, ViaInv, Vias
  <2>4. OnWay => OnWay'
    BY <2>1, <2>2 DEF OnWay
  <2> QED
    BY <2>1, <2>3, <2>4 DEF CopyInv
<1>5. ASSUME NEW q \in Request, Write(q)
      PROVE  CopyInv'
  BY <1>5, CopyWrite
<1>6. ASSUME NEW q \in Request, Refresh(q)
      PROVE  CopyInv'
  <2>1. /\ UNCHANGED <<instance, airport, aside>> /\ request[q].pc = "refresh"
        /\ \A p \in Request \ {q} : request'[p] = request[p]
        /\ request'[q].pc = "status" /\ request'[q].via = request[q].via
        /\ request'[q].to = IF request[q].op = "cancel" THEN "CANCELLED" ELSE instance.state
    BY <1>6, <1>t DEF Refresh, RequestType
  <2>2. \A p \in Request : Copying(p)' <=> Copying(p)
    BY <2>1 DEF Copying
  <2>3. ViaInv'
    BY <2>1 DEF CopyInv, ViaInv
  <2>4. OnWay => OnWay'
    BY <2>1, <2>2 DEF OnWay
  <2> QED
    BY <2>1, <2>3, <2>4 DEF CopyInv
<1>7. ASSUME NEW q \in Request, CopyStatus(q) \/ Abandon(q)
      PROVE  CopyInv'
  <2>1. /\ UNCHANGED instance /\ request[q].pc # "free" /\ airport'.linked = airport.linked
        /\ \A p \in Request \ {q} : request'[p] = request[p]
        /\ request'[q].pc = "free" /\ request'[q].via = "none"
    BY <1>7, <1>t, <1>a DEF CopyStatus, Abandon, Free
  <2>2. ViaInv'
    BY <2>1 DEF CopyInv, ViaInv
  <2>3. \A p \in Request : Copying(p)' => Copying(p) /\ p # q /\ request'[p] = request[p]
    BY <2>1 DEF Copying
  <2>4. ASSUME ~aside', CopyStatus(q)
        PROVE  OnWay'
    <3>1. OnWay /\ Copying(q) /\ airport'.status = request[q].to /\ request[q].pc = "status"
      BY <2>4, <1>a DEF CopyStatus, CopyInv, Copying
    <3>2. \A p \in Request : ~Copying(p)'
      BY <2>3, <3>1 DEF OnWay
    <3> QED
      BY <2>1, <3>1, <3>2 DEF OnWay, Copying
  <2>5. ASSUME ~aside', Abandon(q)
        PROVE  OnWay'
    <3>1. OnWay /\ ~Copying(q) /\ UNCHANGED airport
      BY <2>5 DEF Abandon, CopyInv, Copying
    <3>2. \A p \in Request : Copying(p)' <=> Copying(p)
      BY <2>1, <3>1 DEF Copying
    <3> QED
      BY <2>1, <3>1, <3>2 DEF OnWay
  <2> QED
    BY <1>7, <2>2, <2>4, <2>5 DEF CopyInv
<1>8. ASSUME NEW frozen \in BOOLEAN, SetFrozen(frozen)
      PROVE  CopyInv'
  <2>1. \A p \in Request :
            request'[p] = IF request[p].pc = "write" THEN MarkCrossed(request[p]) ELSE request[p]
    BY <1>8 DEF SetFrozen, MarkCrossed
  <2>2. \A p \in Request : /\ request'[p].pc = request[p].pc /\ request'[p].via = request[p].via
                           /\ request'[p].op = request[p].op /\ request'[p].to = request[p].to
    BY <1>t, <2>1, MarkType
  <2>3. instance'.state = instance.state /\ UNCHANGED <<airport, aside>>
    BY <1>8, <1>a DEF SetFrozen
  <2> QED
    BY <2>2, <2>3 DEF CopyInv, ViaInv, OnWay, Copying
<1> QED
  BY <1>1, <1>2, <1>3, <1>4, <1>5, <1>6, <1>7, <1>8 DEF WorkflowNext

\* The customer sees the state of the workflow for any number of requests, unless
\* the copy was passed by or cut off (AirportService.execute_transition).
THEOREM StatusTheorem == WorkflowSpec => []StatusFollows
<1>1. WorkflowInit => HistoryInv /\ CopyInv
  BY DEF WorkflowInit, HistoryInv, Seen, Free, CopyInv, ViaInv, OnWay, Copying
<1>2. WellFormed /\ CopyInv => StatusFollows
  BY DEF WellFormed, WorkflowTypeOK, CopyInv, OnWay, Copying, StatusFollows
<1> QED
  BY <1>1, <1>2, TypeInit, TypeStep, HistoryStep, CopyStep, PTL DEF WorkflowSpec

-----------------------------------------------------------------------------
(* What the desk keeps beside the bookings.                                *)

PostStatus == {"none", "ASSIGNED", "REASSIGNED", "RELEASED", "COMPLETED"}
PostRow == [first : Post \cup {0}, status : PostStatus, last : PostStatus, linked : BOOLEAN]
ClerkOp == {"none", "reassign", "release", "complete", "edit", "delete", "resolve"}
ClerkState == [op : ClerkOp, on : Post \cup {0}, status : PostStatus,
               content : Content \cup {"none"}, count : Nat, to : Content \cup {"none"},
               at : Nat, breached : BOOLEAN]
NoteRow == [content : Content \cup {"none"}, deleted : BOOLEAN, count : 0 .. MaxRevision, blind : BOOLEAN,
            last : [number : Nat, content : Content \cup {"none"}, crossed : BOOLEAN]]
SlaRow == [minutes : Nat, status : {"none", "ACTIVE", "RESOLVED"}, deadline : Nat, resolved : Nat,
           breached : BOOLEAN, times : Nat]
SharedTyped ==
    /\ assigned \in [Post -> PostRow]
    /\ doubled \in [Post -> Nat]
    /\ note \in NoteRow
    /\ sla \in SlaRow
    /\ hour \in 0 .. MaxHour
    /\ clerk \in [Clerk -> ClerkState]

\* The rows of one chain name the row it began with; a row that is not there has
\* no status; who works on a row read it in a state the operation takes.
PostOps == {"reassign", "release", "complete"}
ChainsRooted ==
    \A p \in Post : /\ assigned[p].first \in 0 .. p
                    /\ assigned[p].first = 0 <=> assigned[p].status = "none"
                    /\ assigned[p].first # 0 =>
                          /\ assigned[assigned[p].first].first # 0
                          /\ \A q \in 1 .. p : assigned[q].first # 0
Taken ==
    \A c \in Clerk : clerk[c].op \in PostOps =>
        /\ clerk[c].on \in Post /\ assigned[clerk[c].on].first # 0
        /\ clerk[c].status \notin Closed(clerk[c].op) \cup {"none"}

\* A mark is that of a resolution; who resolves saw no mark that is not there.
MarksMade ==
    /\ sla.status = "none" => sla.times = 0
    /\ sla.status = "ACTIVE" => sla.times = 0
    /\ sla.breached => sla.times > 0
    /\ \A c \in Clerk : clerk[c].op = "resolve" =>
          sla.status # "none" /\ (clerk[c].breached => sla.breached)

DeskInv == SharedTyped /\ ChainsRooted /\ Taken /\ MarksMade /\ DeskTold

LEMMA Bounds == /\ MaxAssignment \in Nat \ {0}
                /\ MaxRevision \in Nat \ {0}
                /\ MaxHour \in Nat \ {0}
BY SharedAssumption

LEMMA DeskBegins == SharedInit => DeskInv
<1> SUFFICES ASSUME SharedInit PROVE DeskInv
  OBVIOUS
<1> USE DEF SharedInit
<1>1. SharedTyped
  BY Bounds DEF SharedTyped, NoPost, AtRest, PostRow, PostStatus, ClerkState, ClerkOp, NoteRow, SlaRow, Content
<1>2. ChainsRooted /\ Taken /\ MarksMade
  BY DEF ChainsRooted, Taken, MarksMade, NoPost, AtRest, PostOps, Post
<1>3. OneOwner
  <2> SUFFICES ASSUME NEW first \in Post
               PROVE  Cardinality({p \in Post : assigned[p].first = first /\ assigned[p].status = "ASSIGNED"})
                         <= 1 + doubled[first]
    BY DEF OneOwner
  <2>1. {p \in Post : assigned[p].first = first /\ assigned[p].status = "ASSIGNED"} = {}
    BY DEF NoPost
  <2>2. doubled[first] = 0
    OBVIOUS
  <2>3. Cardinality({}) = 0
    BY FS_EmptySet
  <2> QED
    BY <2>1, <2>2, <2>3
<1>4. HistoryTold /\ NoteTold /\ LatenessTold
  BY DEF HistoryTold, NoteTold, LatenessTold, NoPost
<1> QED
  BY <1>1, <1>2, <1>3, <1>4 DEF DeskInv, DeskTold

-----------------------------------------------------------------------------
(* Assignments                                                             *)

OpenOf(first) == {p \in Post : assigned[p].first = first /\ assigned[p].status = "ASSIGNED"}

LEMMA OpenCounted ==
    ASSUME SharedTyped, NEW first \in Post
    PROVE  IsFiniteSet(OpenOf(first)) /\ Cardinality(OpenOf(first)) \in Nat
<1>1. IsFiniteSet(Post)
  BY Bounds, FS_Interval DEF Post
<1>2. OpenOf(first) \subseteq Post
  BY DEF OpenOf
<1> QED
  BY <1>1, <1>2, FS_Subset, FS_CardinalityType

LEMMA LeastOf ==
    ASSUME NEW S \in SUBSET Nat, S # {}
    PROVE  \E p \in S : \A q \in S : p <= q
<1>1. PICK p \in S : \A q \in S : <<q, p>> \notin OpToRel(<, Nat)
  BY WFMin, NatLessThanWellFounded, Zenon
<1>2. \A q \in S : ~(q < p)
  BY <1>1, Zenon DEF OpToRel
<1>3. p \in Nat /\ \A q \in S : q \in Nat
  OBVIOUS
<1> QED
  BY <1>2, <1>3

LEMMA LowestVacant ==
    ASSUME Vacant # {}
    PROVE  /\ Lowest(Vacant) \in Post /\ assigned[Lowest(Vacant)].first = 0
           /\ \A q \in Post : q < Lowest(Vacant) => assigned[q].first # 0
<1>1. Vacant \in SUBSET Nat
  BY DEF Vacant, Post
<1>2. Lowest(Vacant) \in Vacant /\ \A q \in Vacant : Lowest(Vacant) <= q
  BY <1>1, LeastOf DEF Lowest
<1>3. \A q \in Post : q \in Nat
  BY DEF Post
<1> QED
  BY <1>1, <1>2, <1>3 DEF Vacant

\* What the other tables hold stays as it was.
LEMMA PostsKept ==
    ASSUME DeskInv, UNCHANGED <<assigned, doubled>>
    PROVE  ChainsRooted' /\ OneOwner' /\ HistoryTold'
BY DEF DeskInv, DeskTold, ChainsRooted, OneOwner, HistoryTold

LEMMA NoteKept == DeskInv /\ UNCHANGED note => NoteTold'
BY DEF DeskInv, DeskTold, NoteTold

LEMMA SlaKept == DeskInv /\ UNCHANGED <<sla, hour>> => LatenessTold'
BY DEF DeskInv, DeskTold, LatenessTold, Overdue

LEMMA ClerkRests ==
    ASSUME DeskInv, NEW c \in Clerk, Rest(c)
    PROVE  /\ clerk' \in [Clerk -> ClerkState]
           /\ clerk'[c].op = "none"
           /\ \A d \in Clerk \ {c} : clerk'[d] = clerk[d]
BY DEF DeskInv, SharedTyped, Rest, AtRest, ClerkState, ClerkOp, PostStatus

\* No request is at a row that is gone, or resolves what it does not know.
LEMMA ClerksKept ==
    ASSUME DeskInv, \A d \in Clerk : clerk'[d] = clerk[d] \/ clerk'[d].op \notin PostOps \cup {"resolve"},
           \A p \in Post : assigned[p].first # 0 => assigned'[p].first # 0,
           UNCHANGED sla
    PROVE  Taken' /\ MarksMade'
BY DEF DeskInv, Taken, MarksMade

LEMMA DeskStutter == DeskInv /\ UNCHANGED sharedVars => DeskInv'
<1> SUFFICES ASSUME DeskInv, UNCHANGED sharedVars
             PROVE  DeskInv'
  OBVIOUS
<1>1. SharedTyped' /\ Taken' /\ MarksMade'
  BY DEF DeskInv, SharedTyped, Taken, MarksMade, sharedVars
<1>2. DeskTold' /\ ChainsRooted'
  BY PostsKept, NoteKept, SlaKept DEF DeskTold, sharedVars
<1> QED
  BY <1>1, <1>2 DEF DeskInv

LEMMA AssignStep ==
    ASSUME DeskInv, AssignStaff
    PROVE  DeskInv'
<1> USE DEF DeskInv
<1> DEFINE v == Lowest(Vacant)
<1>1. /\ v \in Post /\ assigned[v].first = 0
      /\ \A q \in Post : q < v => assigned[q].first # 0
  BY LowestVacant DEF AssignStaff
<1>2. /\ assigned' = [assigned EXCEPT ![v] = Open(v)]
      /\ UNCHANGED <<table, doubled, note, sla, hour, clerk>>
  BY DEF AssignStaff
<1> HIDE DEF v
<1>3. /\ assigned' \in [Post -> PostRow]
      /\ assigned'[v] = Open(v)
      /\ \A q \in Post \ {v} : assigned'[q] = assigned[q]
  BY <1>1, <1>2 DEF SharedTyped, Open, PostRow, PostStatus
<1>4. SharedTyped'
  BY <1>2, <1>3 DEF SharedTyped
<1>5. v \in Nat \ {0} /\ v \in 0 .. v
  BY <1>1 DEF Post
<1>6. ChainsRooted'
  <2>1. \A q \in Post \ {v} : /\ assigned'[q].first = assigned[q].first
                              /\ assigned'[q].status = assigned[q].status
    BY <1>3
  <2>2. assigned'[v].first = v /\ assigned'[v].status = "ASSIGNED"
    BY <1>3 DEF Open
  <2>3. \A q \in Post : assigned[q].first # 0 => assigned[q].first \in Post
    BY DEF SharedTyped, PostRow
  <2>4. ASSUME NEW q \in Post, assigned'[q].first # 0, NEW r \in 1 .. q
        PROVE  assigned'[r].first # 0
    <3>1. r \in Post /\ q \in Nat /\ r \in Nat /\ v \in Nat
      BY <1>1, Bounds DEF Post
    <3>2. CASE r = v
      BY <1>5, <2>2, <3>2
    <3>3. CASE r # v /\ q = v
      BY <1>1, <2>1, <3>1, <3>3
    <3>4. CASE r # v /\ q # v
      BY <2>1, <2>4, <3>1, <3>4 DEF ChainsRooted
    <3> QED
      BY <3>2, <3>3, <3>4
  <2>5. \A q \in Post : assigned'[q].first # 0 => assigned'[assigned'[q].first].first # 0
    BY <1>1, <1>5, <2>1, <2>2, <2>3 DEF ChainsRooted
  <2>6. \A q \in Post : /\ assigned'[q].first \in 0 .. q
                        /\ assigned'[q].first = 0 <=> assigned'[q].status = "none"
    BY <1>5, <2>1, <2>2 DEF ChainsRooted
  <2> QED
    BY <2>4, <2>5, <2>6 DEF ChainsRooted
<1>7. Taken' /\ MarksMade'
  BY <1>1, <1>2, <1>3, ClerksKept
<1>8. OneOwner'
  <2> SUFFICES ASSUME NEW first \in Post
               PROVE  Cardinality(OpenOf(first)') <= 1 + doubled[first]
    BY <1>2 DEF OneOwner, OpenOf
  <2>1. Cardinality(OpenOf(first)) <= 1 + doubled[first] /\ doubled[first] \in Nat
    BY DEF DeskTold, OneOwner, OpenOf, SharedTyped
  <2>2. CASE first = v
    <3>1. OpenOf(first)' = {v}
      BY <1>1, <1>3, <2>2 DEF OpenOf, Open, ChainsRooted
    <3>2. Cardinality({v}) = 1
      BY FS_Singleton
    <3> QED
      BY <3>1, <3>2, <2>1
  <2>3. CASE first # v
    <3>1. OpenOf(first)' = OpenOf(first)
      BY <1>1, <1>3, <2>3 DEF OpenOf, Open, ChainsRooted, Post
    <3> QED
      BY <3>1, <2>1
  <2> QED
    BY <2>2, <2>3
<1>9. HistoryTold'
  BY <1>3 DEF HistoryTold, DeskTold, Open
<1> QED
  BY <1>2, <1>4, <1>6, <1>7, <1>8, <1>9, NoteKept, SlaKept DEF DeskTold

LEMMA TakenStep ==
    ASSUME DeskInv, NEW c \in Clerk, NEW op \in PostOps, NEW p \in Post, TakePost(c, op, p)
    PROVE  DeskInv'
<1> USE DEF DeskInv
<1>1. /\ assigned[p].first # 0 /\ assigned[p].status \notin Closed(op)
      /\ clerk' = [clerk EXCEPT ![c] = [AtRest EXCEPT !.op = op, !.on = p, !.status = assigned[p].status]]
      /\ UNCHANGED <<table, assigned, doubled, note, sla, hour>>
  BY DEF TakePost
<1>2. assigned[p].status \in PostStatus /\ assigned[p].status # "none"
  BY <1>1 DEF SharedTyped, PostRow, ChainsRooted
<1>3. /\ clerk' \in [Clerk -> ClerkState]
      /\ clerk'[c].op = op /\ clerk'[c].on = p /\ clerk'[c].status = assigned[p].status
      /\ \A d \in Clerk \ {c} : clerk'[d] = clerk[d]
  BY <1>1, <1>2 DEF SharedTyped, AtRest, ClerkState, ClerkOp, PostOps
<1>4. SharedTyped'
  BY <1>1, <1>3 DEF SharedTyped
<1>5. Taken' /\ MarksMade'
  BY <1>1, <1>2, <1>3 DEF Taken, MarksMade, PostOps
<1> QED
  BY <1>1, <1>4, <1>5, PostsKept, NoteKept, SlaKept DEF DeskTold

\* The row after its entry: it has the entry's status and the history goes on.
LEMMA EntryMade ==
    ASSUME DeskInv, NEW c \in Clerk, clerk[c].op \in PostOps, NEW p, p = clerk[c].on
    PROVE  /\ Logged(p, Entry(c)) \in [Post -> PostRow]
           /\ Logged(p, Entry(c))[p].status = Becomes(clerk[c].op)
           /\ Logged(p, Entry(c))[p].last = Becomes(clerk[c].op)
           /\ Logged(p, Entry(c))[p].first = assigned[p].first
           /\ Logged(p, Entry(c))[p].linked
           /\ \A q \in Post \ {p} : Logged(p, Entry(c))[q] = assigned[q]
           /\ Becomes(clerk[c].op) \in {"REASSIGNED", "RELEASED", "COMPLETED"}
<1> USE DEF DeskInv
<1>1. p \in Post /\ assigned[p].first # 0 /\ clerk[c].status \notin Closed(clerk[c].op) \cup {"none"}
  BY DEF Taken
<1>2. clerk[c].status \in PostStatus /\ assigned[p] \in PostRow
  BY <1>1 DEF SharedTyped, ClerkState
<1>3. clerk[c].op = "reassign" => clerk[c].status = "ASSIGNED"
  BY <1>1, <1>2 DEF Closed, PostStatus
<1>4. Entry(c).from = clerk[c].status
  BY <1>3 DEF Entry
<1>5. Entry(c).to = Becomes(clerk[c].op) /\ Entry(c).crossed = (assigned[p].status # clerk[c].status)
  BY DEF Entry
<1>6. Becomes(clerk[c].op) \in {"REASSIGNED", "RELEASED", "COMPLETED"}
  BY DEF Becomes, PostOps
<1>7. Entry(c).crossed \/ Entry(c).from = assigned[p].last
  BY <1>1, <1>4, <1>5 DEF HistoryTold, DeskTold
<1>8. /\ Entry(c).to \in PostStatus
      /\ (Entry(c).crossed \/ Entry(c).from = assigned[p].last) \in BOOLEAN
  BY <1>5, <1>6 DEF PostStatus
<1> HIDE DEF DeskInv
<1>9. assigned \in [Post -> PostRow]
  BY DEF DeskInv, SharedTyped
<1> QED
  BY <1>1, <1>2, <1>5, <1>6, <1>7, <1>8, <1>9 DEF Logged, PostRow

LEMMA CloseStep ==
    ASSUME DeskInv, NEW c \in Clerk, ClosePost(c)
    PROVE  DeskInv'
<1> USE DEF DeskInv
<1> DEFINE p == clerk[c].on
<1>1. /\ clerk[c].op \in PostOps /\ assigned' = Logged(p, Entry(c)) /\ Rest(c)
      /\ UNCHANGED <<table, doubled, note, sla, hour>>
  BY DEF ClosePost, PostOps
<1>2. /\ assigned' \in [Post -> PostRow] /\ assigned'[p].first = assigned[p].first
      /\ assigned'[p].status = assigned'[p].last /\ assigned'[p].linked
      /\ assigned'[p].status \in {"REASSIGNED", "RELEASED", "COMPLETED"}
      /\ \A q \in Post \ {p} : assigned'[q] = assigned[q]
  BY <1>1, EntryMade
<1>3. p \in Post /\ assigned[p].first # 0
  BY <1>1 DEF Taken
<1> HIDE DEF p
<1>4. SharedTyped'
  BY <1>1, <1>2, ClerkRests DEF SharedTyped
<1>5. ChainsRooted'
  <2>1. \A q \in Post : assigned'[q].first = assigned[q].first
    BY <1>2
  <2>2. \A q \in Post : assigned'[q].first = 0 <=> assigned'[q].status = "none"
    BY <1>2, <1>3 DEF ChainsRooted
  <2>3. \A q \in Post : /\ assigned[q].first # 0 => assigned[q].first \in Post
                        /\ 1 .. q \subseteq Post
    BY Bounds DEF SharedTyped, PostRow, Post
  <2> QED
    BY <2>1, <2>2, <2>3 DEF ChainsRooted
<1>6. Taken' /\ MarksMade'
  BY <1>1, <1>2, ClerkRests, ClerksKept DEF PostOps
<1>7. OneOwner'
  <2> SUFFICES ASSUME NEW first \in Post
               PROVE  Cardinality(OpenOf(first)') <= 1 + doubled[first]
    BY <1>1 DEF OneOwner, OpenOf
  <2>1. Cardinality(OpenOf(first)) <= 1 + doubled[first] /\ doubled[first] \in Nat
    BY DEF DeskTold, OneOwner, OpenOf, SharedTyped
  <2>2. OpenOf(first)' \in SUBSET OpenOf(first)
    BY <1>2 DEF OpenOf
  <2>3. IsFiniteSet(OpenOf(first)) /\ Cardinality(OpenOf(first)) \in Nat
    BY OpenCounted
  <2>4. Cardinality(OpenOf(first)') <= Cardinality(OpenOf(first)) /\ Cardinality(OpenOf(first)') \in Nat
    BY <2>2, <2>3, FS_Subset, FS_CardinalityType
  <2> QED
    BY <2>1, <2>3, <2>4
<1>8. HistoryTold'
  BY <1>2 DEF HistoryTold, DeskTold
<1> QED
  BY <1>1, <1>4, <1>5, <1>6, <1>7, <1>8, NoteKept, SlaKept DEF DeskTold

LEMMA ReassignStep ==
    ASSUME DeskInv, NEW c \in Clerk, Reassign(c)
    PROVE  DeskInv'
<1> USE DEF DeskInv
<1> DEFINE p == clerk[c].on
           v == Lowest(Vacant)
           f == assigned[p].first
           logged == Logged(p, Entry(c))
<1>1. /\ clerk[c].op = "reassign" /\ assigned' = [logged EXCEPT ![v] = Open(f)] /\ Rest(c)
      /\ doubled' = [doubled EXCEPT ![f] = IF Entry(c).crossed THEN @ + 1 ELSE @]
      /\ UNCHANGED <<table, note, sla, hour>>
  BY DEF Reassign
<1>2. /\ logged \in [Post -> PostRow] /\ logged[p].first = f
      /\ logged[p].status = logged[p].last /\ logged[p].linked
      /\ logged[p].status = "REASSIGNED"
      /\ \A q \in Post \ {p} : logged[q] = assigned[q]
  BY <1>1, EntryMade DEF PostOps, Becomes
<1>3. p \in Post /\ f # 0 /\ f \in Post
  BY <1>1 DEF Taken, PostOps, SharedTyped, PostRow
<1>4. /\ v \in Post /\ assigned[v].first = 0
      /\ \A q \in Post : q < v => assigned[q].first # 0
  BY LowestVacant DEF Reassign
<1>5. Entry(c).crossed \/ assigned[p].status = "ASSIGNED"
  <2>1. clerk[c].status \in PostStatus
    BY DEF SharedTyped, ClerkState
  <2>2. clerk[c].status = "ASSIGNED"
    BY <1>1, <2>1 DEF Taken, PostOps, Closed, PostStatus
  <2> QED
    BY <2>2 DEF Entry
<1>6. v # p
  BY <1>3, <1>4
<1> HIDE DEF p, v, f, logged
<1>7. /\ assigned' \in [Post -> PostRow]
      /\ assigned'[v] = Open(f) /\ assigned'[p] = logged[p]
      /\ \A q \in Post \ {p, v} : assigned'[q] = assigned[q]
  <2>1. Open(f) \in PostRow
    BY <1>3 DEF Open, PostRow, PostStatus
  <2> QED
    BY <1>1, <1>2, <1>3, <1>4, <1>6, <2>1
<1>8. /\ doubled' \in [Post -> Nat]
      /\ \A g \in Post \ {f} : doubled'[g] = doubled[g]
      /\ doubled'[f] = IF Entry(c).crossed THEN doubled[f] + 1 ELSE doubled[f]
  BY <1>1, <1>3 DEF SharedTyped
<1>9. SharedTyped'
  BY <1>1, <1>7, <1>8, ClerkRests DEF SharedTyped
<1>10. ChainsRooted'
  <2>1. /\ \A q \in Post \ {v} : assigned'[q].first = assigned[q].first
        /\ assigned'[v].first = f /\ assigned'[v].status = "ASSIGNED"
    BY <1>2, <1>7 DEF Open, f
  <2>2. \A q \in Post : assigned'[q].first = 0 <=> assigned'[q].status = "none"
    BY <1>2, <1>3, <1>7, <2>1 DEF ChainsRooted
  <2>3. \A q \in Post : assigned[q].first # 0 => assigned[q].first \in Post
    BY DEF SharedTyped, PostRow
  <2>4. \A q \in Post : assigned'[q].first # 0 => assigned'[assigned'[q].first].first # 0
    BY <1>3, <1>4, <2>1, <2>3 DEF ChainsRooted, f
  <2>5. f <= v
    BY <1>3, <1>4 DEF ChainsRooted, f, Post
  <2>6. \A q \in Post : assigned'[q].first \in 0 .. q
    BY <1>3, <1>4, <2>1, <2>5 DEF ChainsRooted, Post
  <2>7. ASSUME NEW q \in Post, assigned'[q].first # 0, NEW r \in 1 .. q
        PROVE  assigned'[r].first # 0
    <3>1. r \in Post /\ q \in Nat /\ r \in Nat /\ v \in Nat
      BY <1>4, Bounds DEF Post
    <3>2. CASE r = v
      BY <1>3, <2>1, <3>2
    <3>3. CASE r # v /\ q = v
      BY <1>4, <2>1, <3>1, <3>3
    <3>4. CASE r # v /\ q # v
      BY <2>1, <2>7, <3>1, <3>4 DEF ChainsRooted
    <3> QED
      BY <3>2, <3>3, <3>4
  <2> QED
    BY <2>2, <2>4, <2>6, <2>7 DEF ChainsRooted
<1>11. Taken' /\ MarksMade'
  <2>1. \A q \in Post : assigned[q].first # 0 => assigned'[q].first # 0
    BY <1>2, <1>3, <1>4, <1>7 DEF f
  <2> QED
    BY <1>1, <2>1, ClerkRests, ClerksKept DEF PostOps
<1>12. OneOwner'
  <2> SUFFICES ASSUME NEW first \in Post
               PROVE  Cardinality(OpenOf(first)') <= 1 + doubled'[first]
    BY DEF OneOwner, OpenOf
  <2>1. /\ Cardinality(OpenOf(first)) <= 1 + doubled[first] /\ doubled[first] \in Nat
        /\ IsFiniteSet(OpenOf(first)) /\ Cardinality(OpenOf(first)) \in Nat
    BY OpenCounted DEF DeskTold, OneOwner, OpenOf, SharedTyped
  <2>2. CASE first = f
    <3> DEFINE rest == OpenOf(first) \ {p}
    <3>1. OpenOf(first)' = rest \cup {v}
      BY <1>2, <1>3, <1>4, <1>7, <2>2 DEF OpenOf, Open
    <3>2. v \notin rest
      BY <1>3, <1>4, <2>2 DEF OpenOf
    <3>3. /\ IsFiniteSet(rest)
          /\ Cardinality(rest) = IF p \in OpenOf(first) THEN Cardinality(OpenOf(first)) - 1
                                 ELSE Cardinality(OpenOf(first))
      BY <2>1, FS_RemoveElement
    <3>4. Cardinality(OpenOf(first)') = Cardinality(rest) + 1
      BY <3>1, <3>2, <3>3, FS_AddElement
    <3>5. Entry(c).crossed \/ p \in OpenOf(first)
      BY <1>3, <1>5, <2>2 DEF OpenOf, f
    <3> HIDE DEF rest
    <3> QED
      BY <1>8, <2>1, <2>2, <3>3, <3>4, <3>5
  <2>3. CASE first # f
    <3>1. OpenOf(first)' = OpenOf(first)
      BY <1>2, <1>3, <1>4, <1>7, <2>3 DEF OpenOf, Open, f, Post
    <3> QED
      BY <1>8, <2>1, <2>3, <3>1
  <2> QED
    BY <2>2, <2>3
<1>13. HistoryTold'
  <2>1. assigned'[v].last = assigned'[v].status /\ assigned'[v].linked
    BY <1>7 DEF Open
  <2>2. \A q \in Post \ {v} : assigned'[q].last = assigned'[q].status /\ assigned'[q].linked
    BY <1>2, <1>7 DEF HistoryTold, DeskTold
  <2> QED
    BY <2>1, <2>2 DEF HistoryTold
<1> QED
  BY <1>1, <1>9, <1>10, <1>11, <1>12, <1>13, NoteKept, SlaKept DEF DeskTold

-----------------------------------------------------------------------------
(* Notes and deadlines                                                     *)

LEMMA NoteStep ==
    ASSUME DeskInv, CreateNote \/ \E c \in Clerk : EditNote(c) \/ DeleteNote(c)
    PROVE  DeskInv'
<1> USE DEF DeskInv
<1>1. UNCHANGED <<table, assigned, doubled, sla, hour>>
  BY DEF CreateNote, EditNote, DeleteNote
<1>2. /\ clerk' \in [Clerk -> ClerkState]
      /\ \A d \in Clerk : clerk'[d] = clerk[d] \/ clerk'[d].op \notin PostOps \cup {"resolve"}
  <2>1. CASE CreateNote
    BY <2>1 DEF CreateNote, SharedTyped
  <2>2. CASE \E c \in Clerk : EditNote(c) \/ DeleteNote(c)
    BY <2>2, ClerkRests DEF EditNote, DeleteNote, PostOps
  <2> QED
    BY <2>1, <2>2
<1>3. note' \in NoteRow /\ NoteTold'
  <2>1. CASE CreateNote
    <3>1. PICK content \in Content :
             note' = [note EXCEPT !.content = content, !.count = 1,
                                  !.last = [number |-> 1, content |-> content, crossed |-> FALSE]]
      BY <2>1 DEF CreateNote, Revision
    <3>2. 1 \in 0 .. MaxRevision /\ 1 \in Nat
      BY Bounds
    <3> QED
      BY <3>1, <3>2 DEF SharedTyped, NoteRow, NoteTold
  <2>2. ASSUME NEW c \in Clerk, EditNote(c)
        PROVE  note' \in NoteRow /\ NoteTold'
    <3>1. /\ clerk[c].to \in Content \cup {"none"} /\ clerk[c].count \in Nat
          /\ note.count \in Nat /\ note.count < MaxRevision
      <4>1. note.count < MaxRevision
        BY <2>2 DEF EditNote
      <4>2. clerk[c] \in ClerkState /\ note \in NoteRow
        BY DEF SharedTyped
      <4> QED
        BY <4>1, <4>2, Bounds DEF ClerkState, NoteRow
    <3> DEFINE same == clerk[c].to = clerk[c].content
               crossed == clerk[c].count # note.count
               blind == same /\ note.content # clerk[c].to
               content == IF same THEN note.content ELSE clerk[c].to
    <3>2. /\ content \in Content \cup {"none"} /\ crossed \in BOOLEAN /\ blind \in BOOLEAN
          /\ note.count + 1 \in 0 .. MaxRevision /\ clerk[c].count + 1 \in Nat
      BY <3>1, Bounds DEF SharedTyped, NoteRow
    <3>3. /\ blind \/ content = clerk[c].to
          /\ crossed \/ clerk[c].count + 1 = note.count + 1
      BY <3>1
    <3>4. note' = [note EXCEPT !.content = content, !.count = note.count + 1,
                        !.last = [number |-> clerk[c].count + 1, content |-> clerk[c].to, crossed |-> crossed],
                        !.blind = blind]
      BY <2>2 DEF EditNote, Revision, SharedTyped, NoteRow
    <3> HIDE DEF content, crossed, blind
    <3> QED
      BY <3>1, <3>2, <3>3, <3>4 DEF SharedTyped, NoteRow, NoteTold
  <2>3. CASE \E c \in Clerk : DeleteNote(c)
    BY <2>3 DEF DeleteNote, SharedTyped, NoteRow, NoteTold, DeskTold
  <2> QED
    BY <2>1, <2>2, <2>3
<1>4. Taken' /\ MarksMade'
  BY <1>1, <1>2, ClerksKept
<1> QED
  BY <1>1, <1>2, <1>3, <1>4, PostsKept, SlaKept DEF DeskTold, SharedTyped

LEMMA OpenStep ==
    ASSUME DeskInv, NEW c \in Clerk, (\E op \in {"edit", "delete"} : OpenNote(c, op)) \/ TakeSla(c) \/ DropRequest(c)
    PROVE  DeskInv'
<1> USE DEF DeskInv
<1>1. UNCHANGED <<table, assigned, doubled, note, sla, hour>>
  BY DEF OpenNote, TakeSla, DropRequest
<1>2. /\ clerk' \in [Clerk -> ClerkState]
      /\ clerk'[c].op \notin PostOps
      /\ clerk'[c].op = "resolve" => sla.status # "none" /\ clerk'[c].breached = sla.breached
      /\ \A d \in Clerk \ {c} : clerk'[d] = clerk[d]
  <2>1. ASSUME NEW op \in {"edit", "delete"}, OpenNote(c, op)
        PROVE  /\ clerk' \in [Clerk -> ClerkState]
               /\ clerk'[c].op \notin PostOps
               /\ clerk'[c].op # "resolve"
               /\ \A d \in Clerk \ {c} : clerk'[d] = clerk[d]
    <3>1. PICK to \in Content :
             clerk' = [clerk EXCEPT ![c] = [AtRest EXCEPT !.op = op, !.content = note.content,
                                                          !.count = note.count, !.to = to]]
      BY <2>1 DEF OpenNote
    <3>2. note.content \in Content \cup {"none"} /\ note.count \in Nat
      BY Bounds DEF SharedTyped, NoteRow
    <3> QED
      BY <3>1, <3>2 DEF SharedTyped, AtRest, ClerkState, ClerkOp, PostOps, PostStatus
  <2>2. CASE TakeSla(c)
    <3>1. hour \in Nat /\ sla.breached \in BOOLEAN
      BY Bounds DEF SharedTyped, SlaRow
    <3>2. /\ clerk' = [clerk EXCEPT ![c] = [AtRest EXCEPT !.op = "resolve", !.at = hour, !.breached = sla.breached]]
          /\ sla.status # "none"
      BY <2>2 DEF TakeSla
    <3> QED
      BY <3>1, <3>2 DEF SharedTyped, AtRest, ClerkState, ClerkOp, PostOps, PostStatus
  <2>3. CASE DropRequest(c)
    BY <2>3, ClerkRests DEF DropRequest, PostOps
  <2> QED
    BY <2>1, <2>2, <2>3
<1>3. Taken' /\ MarksMade'
  BY <1>1, <1>2 DEF Taken, MarksMade
<1> QED
  BY <1>1, <1>2, <1>3, PostsKept, NoteKept, SlaKept DEF DeskTold, SharedTyped

LEMMA SlaStep ==
    ASSUME DeskInv, DefineSla \/ StartSla \/ HourPasses
    PROVE  DeskInv'
<1> USE DEF DeskInv
<1>1. UNCHANGED <<table, assigned, doubled, note, clerk>>
  BY DEF DefineSla, StartSla, HourPasses
<1>2. sla' \in SlaRow /\ hour' \in 0 .. MaxHour /\ LatenessTold' /\ MarksMade'
  <2>1. CASE DefineSla
    BY <2>1, Bounds DEF DefineSla, SharedTyped, SlaRow, DeskTold, LatenessTold, Overdue, MarksMade
  <2>2. CASE StartSla
    <3>1. /\ sla' = [sla EXCEPT !.status = "ACTIVE", !.deadline = hour + sla.minutes]
          /\ sla.status = "none" /\ UNCHANGED <<hour, clerk>>
      BY <2>2 DEF StartSla
    <3>2. hour \in Nat /\ hour + sla.minutes \in Nat /\ hour \in 0 .. MaxHour
      BY Bounds DEF SharedTyped, SlaRow
    <3>3. sla.times = 0 /\ ~sla.breached
      BY <3>1 DEF MarksMade
    <3>4. /\ sla' \in SlaRow /\ sla'.status = "ACTIVE" /\ sla'.times = sla.times
          /\ sla'.breached = sla.breached
      BY <3>1, <3>2 DEF SharedTyped, SlaRow
    <3> QED
      BY <3>1, <3>2, <3>3, <3>4 DEF LatenessTold, Overdue, MarksMade
  <2>3. CASE HourPasses
    BY <2>3, Bounds DEF HourPasses, SharedTyped, SlaRow, DeskTold, LatenessTold, Overdue, MarksMade
  <2> QED
    BY <2>1, <2>2, <2>3
<1>3. Taken'
  BY <1>1 DEF Taken
<1> QED
  BY <1>1, <1>2, <1>3, PostsKept, NoteKept DEF DeskTold, SharedTyped

LEMMA ResolveStep ==
    ASSUME DeskInv, NEW c \in Clerk, ResolveSla(c)
    PROVE  DeskInv'
<1> USE DEF DeskInv
<1>1. UNCHANGED <<table, assigned, doubled, note, hour>> /\ Rest(c) /\ clerk[c].op = "resolve"
  BY DEF ResolveSla
<1>2. /\ clerk[c].at \in Nat /\ clerk[c].breached \in BOOLEAN /\ hour \in Nat
      /\ sla.status # "none" /\ (clerk[c].breached => sla.breached)
  BY <1>1, Bounds DEF SharedTyped, ClerkState, MarksMade
<1>3. /\ sla' \in SlaRow /\ sla'.status = "RESOLVED" /\ sla'.resolved = clerk[c].at
      /\ sla'.times = sla.times + 1 /\ sla'.deadline = sla.deadline
      /\ sla'.breached <=> sla.breached \/ (clerk[c].at > sla.deadline /\ ~clerk[c].breached)
  <2>1. (sla.breached \/ (clerk[c].at > sla.deadline /\ ~clerk[c].breached)) \in BOOLEAN
    BY DEF SharedTyped, SlaRow
  <2>2. PICK mark \in BOOLEAN :
           /\ mark <=> sla.breached \/ (clerk[c].at > sla.deadline /\ ~clerk[c].breached)
           /\ sla' = [sla EXCEPT !.status = "RESOLVED", !.resolved = clerk[c].at, !.times = sla.times + 1,
                                 !.breached = mark]
    BY <2>1 DEF ResolveSla, SharedTyped, SlaRow
  <2>3. sla \in SlaRow /\ clerk[c].at \in Nat
    BY <1>2 DEF SharedTyped
  <2>4. sla' = [sla EXCEPT !.status = "RESOLVED", !.resolved = clerk[c].at, !.times = sla.times + 1,
                           !.breached = mark]
    BY <2>2
  <2>5. sla.times + 1 \in Nat
    BY <2>3 DEF SlaRow
  <2>6. sla' \in SlaRow
    <3> DEFINE times == sla.times + 1
    <3>1. sla' = [sla EXCEPT !.status = "RESOLVED", !.resolved = clerk[c].at, !.times = times,
                             !.breached = mark]
      BY <2>4
    <3>2. times \in Nat
      BY <2>5
    <3> HIDE DEF times
    <3> QED
      BY <2>3, <3>1, <3>2 DEF SlaRow
  <2>7. sla'.status = "RESOLVED" /\ sla'.resolved = clerk[c].at /\ sla'.breached = mark
    BY <2>3, <2>4 DEF SlaRow
  <2>8. sla'.times = sla.times + 1 /\ sla'.deadline = sla.deadline
    BY <2>3, <2>4 DEF SlaRow
  <2> QED
    BY <2>2, <2>6, <2>7, <2>8
<1>4. sla.times \in Nat /\ sla.deadline \in Nat /\ (sla.breached => sla.times > 0)
  BY DEF SharedTyped, SlaRow, MarksMade
<1>5. LatenessTold'
  BY <1>1, <1>2, <1>3, <1>4 DEF LatenessTold, Overdue
<1>6. MarksMade'
  BY <1>1, <1>2, <1>3, <1>4, ClerkRests DEF MarksMade
<1>7. Taken'
  BY <1>1, ClerkRests DEF Taken, PostOps
<1> QED
  BY <1>1, <1>3, <1>5, <1>6, <1>7, ClerkRests, PostsKept, NoteKept DEF DeskTold, SharedTyped

LEMMA DeskStep == DeskInv /\ [SharedNext]_sharedVars => DeskInv'
<1> SUFFICES ASSUME DeskInv, [SharedNext]_sharedVars
             PROVE  DeskInv'
  OBVIOUS
<1>1. CASE AssignStaff
  BY <1>1, AssignStep
<1>2. CASE DefineSla \/ StartSla \/ HourPasses
  BY <1>2, SlaStep
<1>3. CASE CreateNote \/ \E c \in Clerk : EditNote(c) \/ DeleteNote(c)
  BY <1>3, NoteStep
<1>4. CASE \E c \in Clerk, p \in Post, op \in {"reassign", "release", "complete"} : TakePost(c, op, p)
  BY <1>4, TakenStep DEF PostOps
<1>5. CASE \E c \in Clerk : Reassign(c) \/ ClosePost(c) \/ ResolveSla(c)
  BY <1>5, ReassignStep, CloseStep, ResolveStep
<1>6. CASE \E c \in Clerk : (\E op \in {"edit", "delete"} : OpenNote(c, op)) \/ TakeSla(c) \/ DropRequest(c)
  BY <1>6, OpenStep
<1>7. CASE UNCHANGED sharedVars
  BY <1>7, DeskStutter
<1> QED
  BY <1>1, <1>2, <1>3, <1>4, <1>5, <1>6, <1>7 DEF SharedNext

LEMMA DeskFollows == DeskInv => SharedTypeOK /\ DeskTold
BY DEF DeskInv, SharedTyped, ChainsRooted, SharedTypeOK, PostRow, PostStatus, NoteRow, SlaRow

\* However many requests cross on the tables beside an entity: what was handed on
\* has one owner but for each crossed reassignment, the history and the revisions
\* say what the rows say, and lateness shows (AssignmentService, NotesService,
\* SLAService).
THEOREM DeskTheorem == SharedSpec => []DeskTold
<1>1. SharedSpec => []DeskInv
  BY DeskBegins, DeskStep, PTL DEF SharedSpec
<1> QED
  BY <1>1, DeskFollows, PTL

-----------------------------------------------------------------------------
(* The desks that quote.                                                   *)

Mishap == {"twin", "unsent", "overtaken", "miscounted", "died"}
Enquiry == [status : Progress \cup {"none"}, fresh : BOOLEAN, passengers : 0 .. MaxPassenger, count : Nat,
            told : Progress \cup {"none"}, desk : BOOLEAN, customer : BOOLEAN, mishaps : SUBSET Mishap]
AgentPlace == {"off", "insert", "desk", "customer", "move", "reread", "tell", "roster"}
AgentState == [pc : AgentPlace, on : Slot \cup {0}, read : Progress \cup {"none"}, passengers : Nat,
               count : Nat, to : Progress \cup {"none"}]
EnquiriesTyped ==
    /\ trade \in Trade
    /\ filed \in [Slot -> Enquiry]
    /\ agent \in [Agent -> AgentState]

\* Who works on a row works on one that is there, of its own desk.
AgentsAtRows ==
    \A a \in Agent :
        /\ agent[a].pc \in {"off", "insert"} <=> agent[a].on = 0
        /\ agent[a].on # 0 => agent[a].on \in Slot /\ Exists(agent[a].on)
        /\ agent[a].pc \in {"move", "reread", "tell", "roster"} => trade = "ticketing"
        /\ agent[a].pc \in {"move", "tell"} => agent[a].to \in Progress

\* Who is still to tell of a row.
StillAt(e, places) == \E a \in Agent : agent[a].on = e /\ agent[a].pc \in places
TellingGoesOn ==
    \A e \in Slot : Exists(e) /\ ~Suffered(e, "died") /\ ~Suffered(e, "unsent") =>
        /\ filed[e].desk \/ StillAt(e, {"desk"})
        /\ filed[e].customer \/ trade = "ticketing" \/ StillAt(e, {"desk", "customer"})
StatusGoesOn ==
    trade = "ticketing" => \A e \in Slot : Exists(e) =>
        \/ filed[e].told = filed[e].status
        \/ StillAt(e, {"reread", "tell"})
        \/ Suffered(e, "died") \/ Suffered(e, "overtaken")
        \/ filed[e].told = "none" /\ filed[e].status = "new" /\ StillAt(e, {"desk"})

\* Who counts read the passengers there still are, or fewer.
RosterRead ==
    \A a \in Agent : agent[a].pc = "roster" =>
        /\ agent[a].passengers <= filed[agent[a].on].passengers
        /\ agent[a].passengers = filed[agent[a].on].passengers => agent[a].count = filed[agent[a].on].count

\* Only what is filed was filed in the last ten minutes.
FreshFiled == \A e \in Slot : filed[e].fresh => Exists(e)

EnquiriesInv ==
    /\ EnquiriesTyped /\ AgentsAtRows /\ FreshFiled /\ TellingGoesOn /\ StatusGoesOn /\ RosterRead
    /\ OneEnquiry /\ RosterCounted

LEMMA EnquiryBounds == MaxFiled \in Nat \ {0} /\ MaxPassenger \in Nat \ {0}
BY EnquiriesAssumption

LEMMA WaitingTyped == Waiting \in AgentState /\ 0 \notin Slot
BY EnquiryBounds DEF Waiting, AgentState, AgentPlace, Slot

LEMMA EnquiriesBegin == EnquiriesInit => EnquiriesInv
<1> SUFFICES ASSUME EnquiriesInit PROVE EnquiriesInv
  OBVIOUS
<1>1. NotFiled \in Enquiry
  BY EnquiryBounds DEF NotFiled, Enquiry
<1>2. EnquiriesTyped
  BY <1>1, WaitingTyped DEF EnquiriesInit, EnquiriesTyped
<1> QED
  BY <1>2 DEF EnquiriesInit, EnquiriesInv, AgentsAtRows, TellingGoesOn, StatusGoesOn, RosterRead,
     OneEnquiry, RosterCounted, FreshFiled, Exists, NotFiled, Waiting

LEMMA EnquiriesStutter == EnquiriesInv /\ UNCHANGED enquiryVars => EnquiriesInv'
BY DEF enquiryVars, EnquiriesInv, EnquiriesTyped, AgentsAtRows, TellingGoesOn, StatusGoesOn, RosterRead,
       OneEnquiry, RosterCounted, FreshFiled, Exists, Suffered, StillAt

\* A step in which one agent moves and no row changes its facts.
AgentMoves(a, new) ==
    /\ agent' = [agent EXCEPT ![a] = new]
    /\ UNCHANGED <<trade, filed>>

LEMMA OneMoves ==
    ASSUME EnquiriesInv, NEW a \in Agent, NEW new \in AgentState, agent' = [agent EXCEPT ![a] = new]
    PROVE  /\ agent' \in [Agent -> AgentState] /\ agent'[a] = new
           /\ \A b \in Agent \ {a} : agent'[b] = agent[b]
           /\ \A e, places : (agent[a].on # e \/ agent[a].pc \notin places) /\ StillAt(e, places) => StillAt(e, places)'
           /\ \A e, places : new.on = e /\ new.pc \in places => StillAt(e, places)'
BY DEF EnquiriesInv, EnquiriesTyped, StillAt

\* Nothing is left open by an agent that begins or ends what it need not tell of.
LEMMA RowsStay ==
    ASSUME EnquiriesInv, NEW a \in Agent, NEW new \in AgentState, AgentMoves(a, new),
           agent[a].pc \notin {"desk", "customer"} \/ new.pc = agent[a].pc,
           agent[a].pc \in {"reread", "tell"} => new.pc = "tell" /\ new.on = agent[a].on,
           new.pc \in {"off", "insert"} <=> new.on = 0,
           new.on # 0 => new.on \in Slot /\ Exists(new.on),
           new.pc \in {"move", "reread", "tell", "roster"} => trade = "ticketing",
           new.pc \in {"move", "tell"} => new.to \in Progress,
           new.pc = "roster" => /\ new.passengers = filed[new.on].passengers
                                /\ new.count = filed[new.on].count,
           agent[a].pc \in {"desk", "customer"} => new.on = agent[a].on
    PROVE  EnquiriesInv'
<1> USE DEF EnquiriesInv, AgentMoves
<1>1. /\ agent' \in [Agent -> AgentState] /\ agent'[a] = new
      /\ \A b \in Agent \ {a} : agent'[b] = agent[b]
  BY OneMoves
<1>2. UNCHANGED <<trade, filed>> /\ \A e \in Slot : Exists(e)' <=> Exists(e)
  BY DEF Exists
<1>3. EnquiriesTyped'
  BY <1>1, <1>2 DEF EnquiriesTyped
<1>4. AgentsAtRows'
  BY <1>1, <1>2 DEF AgentsAtRows, Exists
<1>5. \A e \in Slot : /\ StillAt(e, {"desk"}) => StillAt(e, {"desk"})'
                      /\ StillAt(e, {"desk", "customer"}) => StillAt(e, {"desk", "customer"})'
                      /\ StillAt(e, {"reread", "tell"}) => StillAt(e, {"reread", "tell"})'
  BY <1>1 DEF StillAt
<1>6. TellingGoesOn' /\ StatusGoesOn'
  BY <1>2, <1>5 DEF TellingGoesOn, StatusGoesOn, Exists, Suffered
<1>7. RosterRead'
  <2>1. new.pc = "roster" => new.passengers \in Nat
    BY DEF AgentState
  <2> QED
    BY <1>1, <1>2, <2>1 DEF RosterRead
<1>8. OneEnquiry' /\ RosterCounted' /\ FreshFiled'
  BY <1>2 DEF OneEnquiry, RosterCounted, Suffered, FreshFiled
<1> QED
  BY <1>3, <1>4, <1>6, <1>7, <1>8

LEMMA FileStep ==
    ASSUME EnquiriesInv, NEW a \in Agent, File(a)
    PROVE  EnquiriesInv'
<1> DEFINE new == [agent[a] EXCEPT !.pc = "insert"]
<1>1. agent[a].pc = "off" /\ agent[a].on = 0 /\ agent[a] \in AgentState
  BY DEF File, EnquiriesInv, AgentsAtRows, EnquiriesTyped
<1>2. new \in AgentState /\ new.pc = "insert" /\ new.on = 0
  BY <1>1 DEF AgentState, AgentPlace
<1>3. AgentMoves(a, new)
  BY DEF File, Step, AgentMoves
<1> HIDE DEF new
<1> QED
  BY <1>1, <1>2, <1>3, RowsStay

LEMMA TicketOpened ==
    ASSUME EnquiriesInv, NEW a \in Agent, NEW e \in Slot, OpenTicket(a, e)
    PROVE  EnquiriesInv'
<1>1. PICK status \in Progress :
         AgentMoves(a, [Waiting EXCEPT !.pc = "move", !.on = e, !.read = filed[e].status, !.to = status])
  BY DEF OpenTicket, AgentMoves
<1> DEFINE new == [Waiting EXCEPT !.pc = "move", !.on = e, !.read = filed[e].status, !.to = status]
<1>2. filed[e].status \in Progress \cup {"none"} /\ e # 0
  BY WaitingTyped DEF EnquiriesInv, EnquiriesTyped, Enquiry
<1>3. new \in AgentState /\ new.pc = "move" /\ new.on = e /\ new.to \in Progress
  BY <1>2 DEF Waiting, AgentState, AgentPlace
<1>4. agent[a].pc = "off" /\ trade = "ticketing" /\ Exists(e)
  BY DEF OpenTicket
<1>5. AgentMoves(a, new)
  BY <1>1
<1> HIDE DEF new
<1> QED
  BY <1>2, <1>3, <1>4, <1>5, RowsStay

LEMMA RosterOpened ==
    ASSUME EnquiriesInv, NEW a \in Agent, NEW e \in Slot, OpenRoster(a, e)
    PROVE  EnquiriesInv'
<1> DEFINE new == [Waiting EXCEPT !.pc = "roster", !.on = e, !.passengers = filed[e].passengers,
                                  !.count = filed[e].count]
<1>1. AgentMoves(a, new)
  BY DEF OpenRoster, AgentMoves
<1>2. filed[e].passengers \in Nat /\ filed[e].count \in Nat /\ e # 0
  BY WaitingTyped, EnquiryBounds DEF EnquiriesInv, EnquiriesTyped, Enquiry
<1>3. /\ new \in AgentState /\ new.pc = "roster" /\ new.on = e
      /\ new.passengers = filed[e].passengers /\ new.count = filed[e].count
  BY <1>2 DEF Waiting, AgentState, AgentPlace
<1>4. agent[a].pc = "off" /\ trade = "ticketing" /\ Exists(e)
  BY DEF OpenRoster
<1> HIDE DEF new
<1> QED
  BY <1>1, <1>2, <1>3, <1>4, RowsStay

LEMMA RereadStep ==
    ASSUME EnquiriesInv, NEW a \in Agent, RereadTicket(a)
    PROVE  EnquiriesInv'
<1> DEFINE new == [agent[a] EXCEPT !.pc = "tell", !.to = filed[agent[a].on].status]
<1>1. agent[a].pc = "reread" /\ AgentMoves(a, new)
  BY DEF RereadTicket, AgentMoves
<1>2. /\ agent[a].on # 0 /\ agent[a].on \in Slot /\ Exists(agent[a].on) /\ trade = "ticketing"
      /\ agent[a] \in AgentState
  BY <1>1 DEF EnquiriesInv, AgentsAtRows, EnquiriesTyped
<1>3. filed[agent[a].on].status \in Progress
  BY <1>2 DEF EnquiriesInv, EnquiriesTyped, Enquiry, Exists
<1>4. new \in AgentState /\ new.pc = "tell" /\ new.on = agent[a].on /\ new.to \in Progress
  BY <1>2, <1>3 DEF AgentState, AgentPlace
<1> HIDE DEF new
<1> QED
  BY <1>1, <1>2, <1>4, RowsStay

\* The one who works on a row changes it and goes on.
LEMMA RowHandled ==
    ASSUME EnquiriesInv, NEW a \in Agent, NEW e \in Slot, agent[a].on = e,
           NEW entry \in Enquiry, NEW new \in AgentState,
           filed' = [filed EXCEPT ![e] = entry], agent' = [agent EXCEPT ![a] = new], trade' = trade,
           entry.status # "none", new.on \in {0, e}, new.pc \in {"off", "customer", "reread"},
           new.pc = "off" <=> new.on = 0, new.pc = "reread" => trade = "ticketing",
           "died" \notin entry.mishaps /\ "unsent" \notin entry.mishaps =>
               /\ entry.desk \/ StillAt(e, {"desk"})'
               /\ entry.customer \/ trade = "ticketing" \/ StillAt(e, {"desk", "customer"})',
           trade = "ticketing" =>
               \/ entry.told = entry.status \/ StillAt(e, {"reread", "tell"})'
               \/ "died" \in entry.mishaps \/ "overtaken" \in entry.mishaps
               \/ entry.told = "none" /\ entry.status = "new" /\ StillAt(e, {"desk"})',
           \/ entry.passengers = filed[e].passengers /\ entry.count = filed[e].count
           \/ entry.passengers > filed[e].passengers,
           entry.fresh = filed[e].fresh, "twin" \in filed[e].mishaps => "twin" \in entry.mishaps,
           trade = "ticketing" /\ entry.passengers > 0 /\ "miscounted" \notin entry.mishaps => entry.count = entry.passengers
    PROVE  EnquiriesInv'
<1> USE DEF EnquiriesInv
<1>1. /\ agent' \in [Agent -> AgentState] /\ agent'[a] = new
      /\ \A b \in Agent \ {a} : agent'[b] = agent[b]
  BY OneMoves
<1>2. filed'[e] = entry /\ \A d \in Slot \ {e} : filed'[d] = filed[d]
  BY DEF EnquiriesTyped
<1>3. \A d \in Slot : Exists(d) => Exists(d)'
  BY <1>2 DEF Exists
<1>4. EnquiriesTyped'
  <2>1. filed' \in [Slot -> Enquiry]
    BY DEF EnquiriesTyped
  <2> QED
    BY <1>1, <2>1 DEF EnquiriesTyped
<1>5. AgentsAtRows'
  <2>1. Exists(e)'
    BY <1>2 DEF Exists
  <2> QED
    BY <1>1, <1>3, <2>1, WaitingTyped DEF AgentsAtRows
<1>6. \A d \in Slot \ {e} : /\ StillAt(d, {"desk"}) => StillAt(d, {"desk"})'
                            /\ StillAt(d, {"desk", "customer"}) => StillAt(d, {"desk", "customer"})'
                            /\ StillAt(d, {"reread", "tell"}) => StillAt(d, {"reread", "tell"})'
  BY <1>1 DEF StillAt
<1>7. TellingGoesOn'
  BY <1>2, <1>6 DEF TellingGoesOn, Exists, Suffered
<1>8. StatusGoesOn'
  BY <1>2, <1>6 DEF StatusGoesOn, Exists, Suffered
<1>9. RosterRead'
  <2> SUFFICES ASSUME NEW b \in Agent, agent'[b].pc = "roster"
               PROVE  /\ agent'[b].passengers <= filed'[agent'[b].on].passengers
                      /\ agent'[b].passengers = filed'[agent'[b].on].passengers
                             => agent'[b].count = filed'[agent'[b].on].count
    BY DEF RosterRead
  <2>1. b # a /\ agent'[b] = agent[b] /\ agent[b].pc = "roster"
    BY <1>1
  <2>2. agent[b].on \in Slot /\ agent[b].passengers \in Nat
    BY <2>1 DEF AgentsAtRows, EnquiriesTyped, AgentState
  <2>3. filed[e].passengers \in Nat /\ entry.passengers \in Nat
    BY EnquiryBounds DEF EnquiriesTyped, Enquiry
  <2> QED
    BY <1>2, <2>1, <2>2, <2>3 DEF RosterRead
<1>10. OneEnquiry' /\ RosterCounted' /\ FreshFiled'
  BY <1>2 DEF OneEnquiry, RosterCounted, Suffered, FreshFiled, Exists
<1> QED
  BY <1>4, <1>5, <1>7, <1>8, <1>9, <1>10

LEMMA DeskTellingStep ==
    ASSUME EnquiriesInv, NEW a \in Agent, TellDesk(a)
    PROVE  EnquiriesInv'
<1> USE DEF EnquiriesInv
<1>0. PICK e : e = agent[a].on
  OBVIOUS
<1>1. agent[a].pc = "desk" /\ trade' = trade
  BY DEF TellDesk
<1>2. e # 0 /\ e \in Slot /\ Exists(e) /\ agent[a] \in AgentState /\ filed[e] \in Enquiry
  BY <1>0, <1>1 DEF AgentsAtRows, EnquiriesTyped
<1>3. CASE /\ filed' = [filed EXCEPT ![e].desk = TRUE, ![e].told = IF @ = "none" THEN "new" ELSE @]
           /\ Step(a, "customer")
  <2> DEFINE entry == [filed[e] EXCEPT !.desk = TRUE, !.told = IF @ = "none" THEN "new" ELSE @]
             new == [agent[a] EXCEPT !.pc = "customer"]
  <2>1. /\ entry \in Enquiry /\ entry.status = filed[e].status /\ entry.desk /\ entry.customer = filed[e].customer
        /\ entry.passengers = filed[e].passengers /\ entry.count = filed[e].count /\ entry.fresh = filed[e].fresh
        /\ entry.mishaps = filed[e].mishaps
        /\ entry.told = IF filed[e].told = "none" THEN "new" ELSE filed[e].told
    BY <1>2 DEF Enquiry, Progress
  <2>2. new \in AgentState /\ new.pc = "customer" /\ new.on = e
    BY <1>0, <1>2 DEF AgentState, AgentPlace
  <2>3. filed' = [filed EXCEPT ![e] = entry] /\ agent' = [agent EXCEPT ![a] = new]
    BY <1>3, <1>2 DEF Step, EnquiriesTyped
  <2>4. entry.status # "none"
    BY <1>2, <2>1 DEF Exists
  <2> HIDE DEF entry, new
  <2>5. StillAt(e, {"desk", "customer"})'
    BY <1>0, <2>2, <2>3 DEF StillAt, EnquiriesTyped
  <2>6. StillAt(e, {"reread", "tell"}) => StillAt(e, {"reread", "tell"})'
    BY <1>0, <1>1, <2>2, <2>3, OneMoves
  <2>7. trade = "ticketing" =>
           \/ entry.told = entry.status \/ StillAt(e, {"reread", "tell"})'
           \/ "died" \in entry.mishaps \/ "overtaken" \in entry.mishaps
           \/ entry.told = "none" /\ entry.status = "new" /\ StillAt(e, {"desk"})'
    BY <1>2, <2>1, <2>6 DEF StatusGoesOn, Suffered, Exists
  <2>8. trade = "ticketing" /\ entry.passengers > 0 /\ "miscounted" \notin entry.mishaps => entry.count = entry.passengers
    BY <1>2, <2>1 DEF RosterCounted, Suffered
  <2>9. /\ entry.desk \/ StillAt(e, {"desk"})'
        /\ entry.customer \/ trade = "ticketing" \/ StillAt(e, {"desk", "customer"})'
    BY <2>1, <2>5
  <2> QED
    BY <1>0, <1>1, <1>2, <2>1, <2>2, <2>3, <2>4, <2>7, <2>8, <2>9, RowHandled
<1>4. CASE /\ trade = "lounge"
           /\ filed' = [filed EXCEPT ![e].mishaps = @ \cup {"unsent"}]
           /\ Stop(a)
  <2> DEFINE entry == [filed[e] EXCEPT !.mishaps = @ \cup {"unsent"}]
  <2>1. /\ entry \in Enquiry /\ entry.status = filed[e].status
        /\ entry.passengers = filed[e].passengers /\ entry.count = filed[e].count /\ entry.fresh = filed[e].fresh
        /\ entry.mishaps = filed[e].mishaps \cup {"unsent"}
    BY <1>2 DEF Enquiry, Mishap
  <2>2. Waiting \in AgentState /\ Waiting.pc = "off" /\ Waiting.on = 0
    BY WaitingTyped DEF Waiting
  <2>3. filed' = [filed EXCEPT ![e] = entry] /\ agent' = [agent EXCEPT ![a] = Waiting]
    BY <1>4, <1>2 DEF Stop, EnquiriesTyped
  <2>4. entry.status # "none"
    BY <1>2, <2>1 DEF Exists
  <2> HIDE DEF entry
  <2>5. "twin" \in filed[e].mishaps => "twin" \in entry.mishaps
    BY <2>1
  <2>6. "unsent" \in entry.mishaps /\ trade # "ticketing"
    BY <1>4, <2>1
  <2> QED
    BY <1>0, <1>1, <1>2, <2>1, <2>2, <2>3, <2>4, <2>5, <2>6, RowHandled
<1> QED
  BY <1>0, <1>3, <1>4 DEF TellDesk

LEMMA CustomerTellingStep ==
    ASSUME EnquiriesInv, NEW a \in Agent, TellCustomer(a)
    PROVE  EnquiriesInv'
<1> USE DEF EnquiriesInv
<1>0. PICK e : e = agent[a].on
  OBVIOUS
<1> DEFINE late == trade = "ticketing" /\ filed[e].status # "new"
           entry == IF late THEN filed[e] ELSE [filed[e] EXCEPT !.customer = TRUE]
<1>1. agent[a].pc = "customer" /\ trade' = trade
  BY DEF TellCustomer
<1>2. e # 0 /\ e \in Slot /\ Exists(e) /\ agent[a] \in AgentState /\ filed[e] \in Enquiry
  BY <1>0, <1>1 DEF AgentsAtRows, EnquiriesTyped
<1>3. /\ entry \in Enquiry /\ entry.status = filed[e].status /\ entry.desk = filed[e].desk
      /\ entry.customer \/ trade = "ticketing"
      /\ entry.passengers = filed[e].passengers /\ entry.count = filed[e].count /\ entry.fresh = filed[e].fresh
      /\ entry.mishaps = filed[e].mishaps /\ entry.told = filed[e].told
  <2>1. CASE late
    BY <1>2, <2>1
  <2>2. CASE ~late
    BY <1>2, <2>2 DEF Enquiry
  <2> QED
    BY <2>1, <2>2
<1>4. Waiting \in AgentState /\ Waiting.pc = "off" /\ Waiting.on = 0
  BY WaitingTyped DEF Waiting
<1>5. filed' = [filed EXCEPT ![e] = entry] /\ agent' = [agent EXCEPT ![a] = Waiting]
  <2>1. agent' = [agent EXCEPT ![a] = Waiting]
    BY DEF TellCustomer, Stop
  <2>2. CASE late
    BY <1>0, <1>2, <2>1, <2>2 DEF TellCustomer, EnquiriesTyped
  <2>3. CASE ~late
    BY <1>0, <1>2, <2>1, <2>3 DEF TellCustomer, EnquiriesTyped
  <2> QED
    BY <2>1, <2>2, <2>3
<1>6. entry.status # "none"
  BY <1>2, <1>3 DEF Exists
<1> HIDE DEF entry
<1>7. /\ StillAt(e, {"desk"}) => StillAt(e, {"desk"})'
      /\ StillAt(e, {"reread", "tell"}) => StillAt(e, {"reread", "tell"})'
  BY <1>0, <1>1, <1>4, <1>5, OneMoves
<1>8. "died" \notin entry.mishaps /\ "unsent" \notin entry.mishaps =>
         /\ entry.desk \/ StillAt(e, {"desk"})'
         /\ entry.customer \/ trade = "ticketing" \/ StillAt(e, {"desk", "customer"})'
  BY <1>2, <1>3, <1>7 DEF TellingGoesOn, Suffered
<1>9. trade = "ticketing" =>
         \/ entry.told = entry.status \/ StillAt(e, {"reread", "tell"})'
         \/ "died" \in entry.mishaps \/ "overtaken" \in entry.mishaps
         \/ entry.told = "none" /\ entry.status = "new" /\ StillAt(e, {"desk"})'
  BY <1>2, <1>3, <1>7 DEF StatusGoesOn, Suffered
<1>10. trade = "ticketing" /\ entry.passengers > 0 /\ "miscounted" \notin entry.mishaps => entry.count = entry.passengers
  BY <1>2, <1>3 DEF RosterCounted, Suffered
<1> QED
  BY <1>0, <1>1, <1>2, <1>3, <1>4, <1>5, <1>6, <1>8, <1>9, <1>10, RowHandled

LEMMA TicketMoved ==
    ASSUME EnquiriesInv, NEW a \in Agent, MoveTicket(a)
    PROVE  EnquiriesInv'
<1> USE DEF EnquiriesInv
<1>0. PICK e : e = agent[a].on
  OBVIOUS
<1> DEFINE entry == [filed[e] EXCEPT !.status = IF agent[a].to = agent[a].read THEN @ ELSE agent[a].to]
           new == [agent[a] EXCEPT !.pc = "reread"]
<1>1. agent[a].pc = "move" /\ trade' = trade
  BY DEF MoveTicket
<1>2. /\ e # 0 /\ e \in Slot /\ Exists(e) /\ agent[a] \in AgentState /\ filed[e] \in Enquiry
      /\ trade = "ticketing" /\ agent[a].to \in Progress
  BY <1>0, <1>1 DEF AgentsAtRows, EnquiriesTyped
<1>3. /\ entry \in Enquiry /\ entry.status \in {filed[e].status, agent[a].to} /\ entry.desk = filed[e].desk
      /\ entry.passengers = filed[e].passengers /\ entry.count = filed[e].count /\ entry.fresh = filed[e].fresh
      /\ entry.mishaps = filed[e].mishaps /\ entry.told = filed[e].told
  BY <1>2 DEF Enquiry
<1>4. new \in AgentState /\ new.pc = "reread" /\ new.on = e
  BY <1>0, <1>2 DEF AgentState, AgentPlace
<1>5. filed' = [filed EXCEPT ![e] = entry] /\ agent' = [agent EXCEPT ![a] = new]
  BY <1>0, <1>2 DEF MoveTicket, Step, EnquiriesTyped
<1>6. entry.status # "none"
  BY <1>2, <1>3 DEF Exists, Progress
<1> HIDE DEF entry, new
<1>7. StillAt(e, {"desk"}) => StillAt(e, {"desk"})'
  BY <1>0, <1>1, <1>4, <1>5, OneMoves
<1>8. StillAt(e, {"reread", "tell"})'
  BY <1>0, <1>4, <1>5 DEF StillAt, EnquiriesTyped
<1>9. "died" \notin entry.mishaps /\ "unsent" \notin entry.mishaps =>
         /\ entry.desk \/ StillAt(e, {"desk"})'
         /\ entry.customer \/ trade = "ticketing" \/ StillAt(e, {"desk", "customer"})'
  BY <1>2, <1>3, <1>7 DEF TellingGoesOn, Suffered
<1>10. trade = "ticketing" /\ entry.passengers > 0 /\ "miscounted" \notin entry.mishaps => entry.count = entry.passengers
  BY <1>2, <1>3 DEF RosterCounted, Suffered
<1> QED
  BY <1>0, <1>1, <1>2, <1>3, <1>4, <1>5, <1>6, <1>8, <1>9, <1>10, RowHandled

LEMMA StatusTold ==
    ASSUME EnquiriesInv, NEW a \in Agent, TellStatus(a)
    PROVE  EnquiriesInv'
<1> USE DEF EnquiriesInv
<1>0. PICK e : e = agent[a].on
  OBVIOUS
<1> DEFINE entry == [filed[e] EXCEPT !.told = agent[a].to,
                       !.mishaps = IF agent[a].to # filed[e].status THEN @ \cup {"overtaken"} ELSE @]
<1>1. agent[a].pc = "tell" /\ trade' = trade
  BY DEF TellStatus
<1>2. /\ e # 0 /\ e \in Slot /\ Exists(e) /\ agent[a] \in AgentState /\ filed[e] \in Enquiry
      /\ trade = "ticketing" /\ agent[a].to \in Progress
  BY <1>0, <1>1 DEF AgentsAtRows, EnquiriesTyped
<1>3. /\ entry \in Enquiry /\ entry.status = filed[e].status /\ entry.desk = filed[e].desk
      /\ entry.passengers = filed[e].passengers /\ entry.count = filed[e].count /\ entry.fresh = filed[e].fresh
      /\ filed[e].mishaps \subseteq entry.mishaps /\ entry.mishaps \subseteq filed[e].mishaps \cup {"overtaken"}
      /\ entry.told = entry.status \/ "overtaken" \in entry.mishaps
  BY <1>2 DEF Enquiry, Mishap
<1>4. Waiting \in AgentState /\ Waiting.pc = "off" /\ Waiting.on = 0
  BY WaitingTyped DEF Waiting
<1>5. filed' = [filed EXCEPT ![e] = entry] /\ agent' = [agent EXCEPT ![a] = Waiting]
  BY <1>0, <1>2 DEF TellStatus, Stop, EnquiriesTyped
<1>6. entry.status # "none"
  BY <1>2, <1>3 DEF Exists
<1> HIDE DEF entry
<1>7. StillAt(e, {"desk"}) => StillAt(e, {"desk"})'
  BY <1>0, <1>1, <1>4, <1>5, OneMoves
<1>9. "died" \notin entry.mishaps /\ "unsent" \notin entry.mishaps =>
         /\ entry.desk \/ StillAt(e, {"desk"})'
         /\ entry.customer \/ trade = "ticketing" \/ StillAt(e, {"desk", "customer"})'
  BY <1>2, <1>3, <1>7 DEF TellingGoesOn, Suffered
<1>10. trade = "ticketing" /\ entry.passengers > 0 /\ "miscounted" \notin entry.mishaps => entry.count = entry.passengers
  BY <1>2, <1>3 DEF RosterCounted, Suffered
<1> QED
  BY <1>0, <1>1, <1>2, <1>3, <1>4, <1>5, <1>6, <1>9, <1>10, RowHandled

LEMMA PassengerAdded ==
    ASSUME EnquiriesInv, NEW a \in Agent, AddPassenger(a)
    PROVE  EnquiriesInv'
<1> USE DEF EnquiriesInv
<1>0. PICK e : e = agent[a].on
  OBVIOUS
<1> DEFINE entry == [filed[e] EXCEPT !.passengers = @ + 1,
                       !.count = IF agent[a].passengers + 1 = agent[a].count THEN @ ELSE agent[a].passengers + 1,
                       !.mishaps = IF agent[a].passengers # filed[e].passengers
                                   THEN @ \cup {"miscounted"} ELSE @ \ {"miscounted"}]
<1>1. agent[a].pc = "roster" /\ trade' = trade /\ filed[e].passengers < MaxPassenger
  BY <1>0 DEF AddPassenger
<1>2. /\ e # 0 /\ e \in Slot /\ Exists(e) /\ agent[a] \in AgentState /\ filed[e] \in Enquiry
      /\ trade = "ticketing"
  BY <1>0, <1>1 DEF AgentsAtRows, EnquiriesTyped
<1>3. /\ filed[e].passengers \in Nat /\ filed[e].passengers + 1 \in 0 .. MaxPassenger
      /\ agent[a].passengers \in Nat /\ agent[a].passengers + 1 \in Nat
  BY <1>0, <1>1, <1>2, EnquiryBounds DEF Enquiry, AgentState
<1>4. /\ entry \in Enquiry /\ entry.status = filed[e].status /\ entry.desk = filed[e].desk
      /\ entry.passengers = filed[e].passengers + 1 /\ entry.fresh = filed[e].fresh
      /\ entry.count = IF agent[a].passengers + 1 = agent[a].count THEN filed[e].count ELSE agent[a].passengers + 1
      /\ entry.told = filed[e].told
      /\ entry.mishaps = IF agent[a].passengers # filed[e].passengers
                       THEN filed[e].mishaps \cup {"miscounted"} ELSE filed[e].mishaps \ {"miscounted"}
  BY <1>2, <1>3 DEF Enquiry, Mishap
<1>5. Waiting \in AgentState /\ Waiting.pc = "off" /\ Waiting.on = 0
  BY WaitingTyped DEF Waiting
<1>6. filed' = [filed EXCEPT ![e] = entry] /\ agent' = [agent EXCEPT ![a] = Waiting]
  BY <1>0, <1>2 DEF AddPassenger, Stop, EnquiriesTyped
<1>7. entry.status # "none"
  BY <1>2, <1>4 DEF Exists
<1>8. "miscounted" \notin entry.mishaps => entry.count = entry.passengers
  BY <1>0, <1>1, <1>3, <1>4 DEF RosterRead
<1> HIDE DEF entry
<1>9. /\ StillAt(e, {"desk"}) => StillAt(e, {"desk"})'
      /\ StillAt(e, {"reread", "tell"}) => StillAt(e, {"reread", "tell"})'
  BY <1>0, <1>1, <1>5, <1>6, OneMoves
<1>10. \A mishap \in {"died", "unsent", "overtaken", "twin"} :
          mishap \in entry.mishaps <=> mishap \in filed[e].mishaps
  BY <1>4
<1>11. "died" \notin entry.mishaps /\ "unsent" \notin entry.mishaps =>
         /\ entry.desk \/ StillAt(e, {"desk"})'
         /\ entry.customer \/ trade = "ticketing" \/ StillAt(e, {"desk", "customer"})'
  BY <1>2, <1>4, <1>9, <1>10 DEF TellingGoesOn, Suffered
<1>12. \/ entry.told = entry.status \/ StillAt(e, {"reread", "tell"})'
       \/ "died" \in entry.mishaps \/ "overtaken" \in entry.mishaps
       \/ entry.told = "none" /\ entry.status = "new" /\ StillAt(e, {"desk"})'
  BY <1>2, <1>4, <1>9, <1>10 DEF StatusGoesOn, Suffered
<1>13. entry.passengers > filed[e].passengers
  BY <1>3, <1>4
<1>14. /\ entry \in Enquiry /\ entry.fresh = filed[e].fresh
       /\ "twin" \in filed[e].mishaps => "twin" \in entry.mishaps
  BY <1>4, <1>10
<1> QED
  BY <1>0, <1>1, <1>2, <1>5, <1>6, <1>7, <1>8, <1>11, <1>12, <1>13, <1>14, RowHandled

LEMMA AgentDiesStep ==
    ASSUME EnquiriesInv, NEW a \in Agent, AgentDies(a)
    PROVE  EnquiriesInv'
<1> USE DEF EnquiriesInv
<1>1. agent[a].pc # "off" /\ trade' = trade /\ agent[a] \in AgentState
  BY DEF AgentDies, EnquiriesTyped
<1>2. Waiting \in AgentState /\ Waiting.pc = "off" /\ Waiting.on = 0
  BY WaitingTyped DEF Waiting
<1>3. agent' = [agent EXCEPT ![a] = Waiting]
  BY DEF AgentDies, Stop
<1>4. CASE agent[a].pc \in {"desk", "customer", "reread", "tell"}
  <2>0. PICK e : e = agent[a].on
    OBVIOUS
  <2> DEFINE entry == [filed[e] EXCEPT !.mishaps = @ \cup {"died"}]
  <2>1. e # 0 /\ e \in Slot /\ Exists(e) /\ filed[e] \in Enquiry
    BY <2>0, <1>4 DEF AgentsAtRows, EnquiriesTyped
  <2>2. /\ entry \in Enquiry /\ entry.status = filed[e].status
        /\ entry.passengers = filed[e].passengers /\ entry.count = filed[e].count /\ entry.fresh = filed[e].fresh
        /\ entry.mishaps = filed[e].mishaps \cup {"died"}
    BY <2>1 DEF Enquiry, Mishap
  <2>3. filed' = [filed EXCEPT ![e] = entry]
    BY <2>0, <2>1, <1>4 DEF AgentDies, EnquiriesTyped
  <2>4. entry.status # "none"
    BY <2>1, <2>2 DEF Exists
  <2> HIDE DEF entry
  <2>5. "twin" \in filed[e].mishaps => "twin" \in entry.mishaps
    BY <2>2
  <2>6. "died" \in entry.mishaps
    BY <2>2
  <2>7. trade = "ticketing" /\ entry.passengers > 0 /\ "miscounted" \notin entry.mishaps => entry.count = entry.passengers
    BY <2>1, <2>2 DEF RosterCounted, Suffered
  <2> QED
    BY <1>1, <1>2, <1>3, <2>0, <2>1, <2>2, <2>3, <2>4, <2>5, <2>6, <2>7, RowHandled
<1>5. CASE agent[a].pc \notin {"desk", "customer", "reread", "tell"}
  <2>1. AgentMoves(a, Waiting)
    BY <1>3, <1>5 DEF AgentDies, AgentMoves
  <2> QED
    BY <1>1, <1>2, <1>5, <2>1, RowsStay
<1> QED
  BY <1>4, <1>5

\* The desk or the clock changes a row; no agent moves.
LEMMA RowReworked ==
    ASSUME EnquiriesInv, NEW e \in Slot, Exists(e), NEW entry \in Enquiry,
           filed' = [filed EXCEPT ![e] = entry], UNCHANGED <<trade, agent>>, entry.status # "none",
           trade = "ticketing" => entry.status = filed[e].status,
           entry.told = filed[e].told, entry.desk = filed[e].desk, entry.customer = filed[e].customer,
           entry.passengers = filed[e].passengers, entry.count = filed[e].count,
           entry.mishaps = filed[e].mishaps, entry.fresh => filed[e].fresh
    PROVE  EnquiriesInv'
<1> USE DEF EnquiriesInv
<1>1. filed'[e] = entry /\ \A d \in Slot \ {e} : filed'[d] = filed[d]
  BY DEF EnquiriesTyped
<1>2. \A d \in Slot : Exists(d)' <=> Exists(d)
  BY <1>1 DEF Exists
<1>3. \A d \in Slot : /\ filed'[d].mishaps = filed[d].mishaps
                      /\ filed'[d].passengers = filed[d].passengers /\ filed'[d].count = filed[d].count
                      /\ filed'[d].fresh => filed[d].fresh
                      /\ filed'[d].desk = filed[d].desk /\ filed'[d].customer = filed[d].customer
                      /\ filed'[d].told = filed[d].told
                      /\ trade = "ticketing" => filed'[d].status = filed[d].status
  BY <1>1
<1>4. EnquiriesTyped'
  BY DEF EnquiriesTyped
<1>5. AgentsAtRows'
  BY <1>2 DEF AgentsAtRows
<1>6. \A d, places : StillAt(d, places)' <=> StillAt(d, places)
  BY DEF StillAt
<1>7. TellingGoesOn' /\ StatusGoesOn'
  BY <1>2, <1>3, <1>6 DEF TellingGoesOn, StatusGoesOn, Suffered
<1>8. RosterRead'
  BY <1>3 DEF RosterRead, AgentsAtRows
<1>9. OneEnquiry' /\ RosterCounted' /\ FreshFiled'
  BY <1>2, <1>3 DEF OneEnquiry, RosterCounted, Suffered, FreshFiled
<1> QED
  BY <1>4, <1>5, <1>7, <1>8, <1>9

LEMMA TenMinutesPass ==
    ASSUME EnquiriesInv, NEW e \in Slot, TenMinutes(e)
    PROVE  EnquiriesInv'
<1> DEFINE entry == [filed[e] EXCEPT !.fresh = FALSE]
<1>1. filed[e] \in Enquiry /\ Exists(e) /\ UNCHANGED <<trade, agent>>
  BY DEF TenMinutes, EnquiriesInv, EnquiriesTyped
<1>2. /\ entry \in Enquiry /\ entry.status = filed[e].status
      /\ entry.told = filed[e].told /\ entry.desk = filed[e].desk /\ entry.customer = filed[e].customer
      /\ entry.passengers = filed[e].passengers /\ entry.count = filed[e].count
      /\ entry.mishaps = filed[e].mishaps
  BY <1>1 DEF Enquiry
<1>3. ~entry.fresh
  BY <1>1 DEF Enquiry
<1>4. filed' = [filed EXCEPT ![e] = entry]
  BY DEF TenMinutes, EnquiriesInv, EnquiriesTyped
<1>5. entry.status # "none"
  BY <1>1, <1>2 DEF Exists
<1> HIDE DEF entry
<1> QED
  BY <1>1, <1>2, <1>3, <1>4, <1>5, RowReworked

LEMMA FiledUpdated ==
    ASSUME EnquiriesInv, NEW e \in Slot, UpdateFiled(e)
    PROVE  EnquiriesInv'
<1>1. PICK status \in Progress : filed' = [filed EXCEPT ![e].status = status]
  BY DEF UpdateFiled
<1> DEFINE entry == [filed[e] EXCEPT !.status = status]
<1>2. filed[e] \in Enquiry /\ Exists(e) /\ trade # "ticketing" /\ UNCHANGED <<trade, agent>>
  BY DEF UpdateFiled, EnquiriesInv, EnquiriesTyped
<1>3. /\ entry \in Enquiry /\ entry.status = status
      /\ entry.told = filed[e].told /\ entry.desk = filed[e].desk /\ entry.customer = filed[e].customer
      /\ entry.passengers = filed[e].passengers /\ entry.count = filed[e].count
      /\ entry.mishaps = filed[e].mishaps /\ entry.fresh = filed[e].fresh
  BY <1>2 DEF Enquiry
<1>4. filed' = [filed EXCEPT ![e] = entry]
  BY <1>1 DEF EnquiriesInv, EnquiriesTyped
<1>5. entry.status # "none"
  BY <1>3 DEF Progress
<1> HIDE DEF entry
<1> QED
  BY <1>2, <1>3, <1>4, <1>5, RowReworked

LEMMA InsertStep ==
    ASSUME EnquiriesInv, NEW a \in Agent, Insert(a)
    PROVE  EnquiriesInv'
<1> USE DEF EnquiriesInv
<1>1. PICK e \in Unfiled : e = CHOOSE d \in Unfiled : \A f \in Unfiled : d <= f
  <2>1. Unfiled # {} /\ Unfiled \in SUBSET Nat
    BY EnquiryBounds DEF Insert, Unfiled, Slot
  <2> QED
    BY <2>1, LeastOf
<1>2. PICK named \in {0, 1} : \E twin \in {{}, {"twin"}} :
         /\ named = 0 \/ trade = "ticketing"
         /\ twin = IF Recent = {} THEN {} ELSE {"twin"}
         /\ filed' = [filed EXCEPT ![e] =
                [NotFiled EXCEPT !.status = "new", !.fresh = (trade = "lounge"), !.passengers = named, !.count = 1,
                                 !.told = IF trade = "ticketing" THEN "none" ELSE "new",
                                 !.mishaps = twin]]
         /\ agent' = [agent EXCEPT ![a] = [Waiting EXCEPT !.pc = "desk", !.on = e]]
  <2>1. PICK named \in IF trade = "ticketing" THEN {0, 1} ELSE {0} :
           /\ filed' = [filed EXCEPT ![e] =
                  [NotFiled EXCEPT !.status = "new", !.fresh = (trade = "lounge"), !.passengers = named, !.count = 1,
                                   !.told = IF trade = "ticketing" THEN "none" ELSE "new",
                                   !.mishaps = IF Recent = {} THEN {} ELSE {"twin"}]]
           /\ agent' = [agent EXCEPT ![a] = [Waiting EXCEPT !.pc = "desk", !.on = e]]
    BY <1>1 DEF Insert
  <2>2. named \in {0, 1} /\ (named = 0 \/ trade = "ticketing")
    BY <2>1
  <2> QED
    BY <2>1, <2>2
<1>3. PICK twin \in {{}, {"twin"}} :
         /\ twin = IF Recent = {} THEN {} ELSE {"twin"}
         /\ filed' = [filed EXCEPT ![e] =
                [NotFiled EXCEPT !.status = "new", !.fresh = (trade = "lounge"), !.passengers = named, !.count = 1,
                                 !.told = IF trade = "ticketing" THEN "none" ELSE "new",
                                 !.mishaps = twin]]
  BY <1>2
<1>4. PICK fresh \in BOOLEAN : fresh = (trade = "lounge")
  OBVIOUS
<1>5. PICK told \in {"none", "new"} : told = IF trade = "ticketing" THEN "none" ELSE "new"
  OBVIOUS
<1> DEFINE entry == [NotFiled EXCEPT !.status = "new", !.fresh = fresh, !.passengers = named, !.count = 1,
                                   !.told = told, !.mishaps = twin]
           new == [Waiting EXCEPT !.pc = "desk", !.on = e]
<1>6. entry \in Enquiry
  <2>1. named \in 0 .. MaxPassenger
    BY EnquiryBounds
  <2>2. twin \in SUBSET Mishap
    BY DEF Mishap
  <2> QED
    BY <2>1, <2>2 DEF NotFiled, Enquiry, Progress
<1>7. /\ entry.status = "new" /\ entry.fresh = fresh /\ entry.passengers = named /\ entry.count = 1
      /\ entry.told = told /\ entry.mishaps = twin
  BY DEF NotFiled
<1>8. e \in Slot /\ e # 0 /\ ~Exists(e)
  BY WaitingTyped DEF Unfiled
<1>9. new \in AgentState /\ new.pc = "desk" /\ new.on = e
  BY <1>8 DEF Waiting, AgentState, AgentPlace
<1>10. filed' = [filed EXCEPT ![e] = entry] /\ agent' = [agent EXCEPT ![a] = new] /\ trade' = trade
  BY <1>2, <1>3, <1>4, <1>5 DEF Insert
<1>11. agent[a].pc = "insert"
  BY DEF Insert
<1> HIDE DEF entry, new
<1>12. /\ agent' \in [Agent -> AgentState] /\ agent'[a] = new
       /\ \A b \in Agent \ {a} : agent'[b] = agent[b]
  BY <1>9, <1>10, OneMoves
<1>13. filed'[e] = entry /\ \A d \in Slot \ {e} : filed'[d] = filed[d]
  BY <1>8, <1>10 DEF EnquiriesTyped
<1>14. Exists(e)' /\ \A d \in Slot \ {e} : Exists(d)' <=> Exists(d)
  BY <1>7, <1>13 DEF Exists
<1>15. \A b \in Agent : agent[b].on # e
  BY <1>8 DEF AgentsAtRows
<1>16. EnquiriesTyped'
  <2>1. filed' \in [Slot -> Enquiry]
    BY <1>6, <1>10 DEF EnquiriesTyped
  <2> QED
    BY <1>10, <1>12, <2>1 DEF EnquiriesTyped
<1>17. AgentsAtRows'
  BY <1>8, <1>9, <1>10, <1>12, <1>14 DEF AgentsAtRows
<1>18. StillAt(e, {"desk"})' /\ StillAt(e, {"desk", "customer"})'
  BY <1>9, <1>12 DEF StillAt
<1>19. \A d \in Slot \ {e} : /\ StillAt(d, {"desk"}) => StillAt(d, {"desk"})'
                             /\ StillAt(d, {"desk", "customer"}) => StillAt(d, {"desk", "customer"})'
                             /\ StillAt(d, {"reread", "tell"}) => StillAt(d, {"reread", "tell"})'
  BY <1>11, <1>12 DEF StillAt
<1>20. TellingGoesOn'
  BY <1>10, <1>13, <1>14, <1>18, <1>19 DEF TellingGoesOn, Suffered
<1>21. StatusGoesOn'
  BY <1>5, <1>7, <1>10, <1>13, <1>14, <1>18, <1>19 DEF StatusGoesOn, Suffered
<1>22. RosterRead'
  <2> SUFFICES ASSUME NEW b \in Agent, agent'[b].pc = "roster"
               PROVE  /\ agent'[b].passengers <= filed'[agent'[b].on].passengers
                      /\ agent'[b].passengers = filed'[agent'[b].on].passengers
                             => agent'[b].count = filed'[agent'[b].on].count
    BY DEF RosterRead
  <2>1. agent'[b] = agent[b] /\ agent[b].pc = "roster" /\ agent[b].on \in Slot \ {e}
    BY <1>9, <1>12, <1>15 DEF AgentsAtRows
  <2> QED
    BY <1>13, <2>1 DEF RosterRead
<1>23. RosterCounted'
  BY <1>7, <1>10, <1>13 DEF RosterCounted, Suffered
<1>24. OneEnquiry'
  <2> SUFFICES ASSUME trade = "lounge", NEW d \in Slot, NEW f \in Slot, d # f, filed'[d].fresh, filed'[f].fresh
               PROVE  "twin" \in filed'[d].mishaps \/ "twin" \in filed'[f].mishaps
    BY <1>10 DEF OneEnquiry, Suffered
  <2>1. \A g \in Slot \ {e} : filed'[g].fresh => Recent # {} \/ ~Exists(g)
    BY <1>13 DEF Recent
  <2>2. \A g \in Slot : filed[g].fresh => Exists(g)
    BY DEF FreshFiled
  <2> QED
    BY <1>3, <1>7, <1>13, <2>1, <2>2 DEF OneEnquiry, Suffered
<1>25. FreshFiled'
  BY <1>13, <1>14 DEF FreshFiled
<1> QED
  BY <1>16, <1>17, <1>20, <1>21, <1>22, <1>23, <1>24, <1>25

LEMMA EnquiriesStep == EnquiriesInv /\ [EnquiriesNext]_enquiryVars => EnquiriesInv'
<1> SUFFICES ASSUME EnquiriesInv, [EnquiriesNext]_enquiryVars PROVE EnquiriesInv'
  OBVIOUS
<1>1. CASE UNCHANGED enquiryVars
  BY <1>1, EnquiriesStutter
<1>2. ASSUME NEW a \in Agent, File(a) PROVE EnquiriesInv'
  BY <1>2, FileStep
<1>3. ASSUME NEW a \in Agent, Insert(a) PROVE EnquiriesInv'
  BY <1>3, InsertStep
<1>4. ASSUME NEW a \in Agent, TellDesk(a) PROVE EnquiriesInv'
  BY <1>4, DeskTellingStep
<1>5. ASSUME NEW a \in Agent, TellCustomer(a) PROVE EnquiriesInv'
  BY <1>5, CustomerTellingStep
<1>6. ASSUME NEW a \in Agent, MoveTicket(a) PROVE EnquiriesInv'
  BY <1>6, TicketMoved
<1>7. ASSUME NEW a \in Agent, RereadTicket(a) PROVE EnquiriesInv'
  BY <1>7, RereadStep
<1>8. ASSUME NEW a \in Agent, TellStatus(a) PROVE EnquiriesInv'
  BY <1>8, StatusTold
<1>9. ASSUME NEW a \in Agent, AddPassenger(a) PROVE EnquiriesInv'
  BY <1>9, PassengerAdded
<1>10. ASSUME NEW a \in Agent, AgentDies(a) PROVE EnquiriesInv'
  BY <1>10, AgentDiesStep
<1>11. ASSUME NEW a \in Agent, NEW e \in Slot, OpenTicket(a, e) PROVE EnquiriesInv'
  BY <1>11, TicketOpened
<1>12. ASSUME NEW a \in Agent, NEW e \in Slot, OpenRoster(a, e) PROVE EnquiriesInv'
  BY <1>12, RosterOpened
<1>13. ASSUME NEW e \in Slot, TenMinutes(e) PROVE EnquiriesInv'
  BY <1>13, TenMinutesPass
<1>14. ASSUME NEW e \in Slot, UpdateFiled(e) PROVE EnquiriesInv'
  BY <1>14, FiledUpdated
<1> QED
  BY <1>1, <1>2, <1>3, <1>4, <1>5, <1>6, <1>7, <1>8, <1>9, <1>10, <1>11, <1>12, <1>13, <1>14
     DEF EnquiriesNext

LEMMA EnquiriesFollow == EnquiriesInv => EnquiriesTypeOK /\ DesksServe
<1> SUFFICES ASSUME EnquiriesInv PROVE EnquiriesTypeOK /\ DesksServe
  OBVIOUS
<1> USE DEF EnquiriesInv
<1>1. EnquiriesTypeOK
  <2>1. \A e \in Slot : filed[e] \in Enquiry
    BY DEF EnquiriesTyped
  <2>2. \A a \in Agent : agent[a] \in AgentState
    BY DEF EnquiriesTyped
  <2>3. \A a \in Agent : agent[a].on \in 0 .. MaxFiled
    BY <2>2, EnquiryBounds DEF AgentState, Slot
  <2> QED
    BY <2>1, <2>3 DEF EnquiriesTypeOK, EnquiriesTyped, Enquiry, Mishap
<1>2. \A e, places : ~Handled(e) => ~StillAt(e, places)
  BY DEF Handled, StillAt
<1>3. FiledTold
  BY <1>2 DEF FiledTold, TellingGoesOn
<1>4. TicketTold
  BY <1>2 DEF TicketTold, StatusGoesOn
<1> QED
  BY <1>1, <1>3, <1>4 DEF DesksServe

\* The desks that quote lose nothing: a repeated lounge request stays one enquiry, what was
\* filed was told, the newest entry tells the ticket's status, and its passengers are counted.
THEOREM EnquiriesTheorem == EnquiriesSpec => [](EnquiriesTypeOK /\ DesksServe)
<1>1. EnquiriesInit => EnquiriesInv
  BY EnquiriesBegin
<1>2. EnquiriesInv /\ [EnquiriesNext]_enquiryVars => EnquiriesInv'
  BY EnquiriesStep
<1>3. EnquiriesInv => EnquiriesTypeOK /\ DesksServe
  BY EnquiriesFollow
<1> QED
  BY <1>1, <1>2, <1>3, PTL DEF EnquiriesSpec
=============================================================================
